---- MODULE Spec2Model ----
(***************************************************************************)
(* A model of the notification prioritization engine: the in-memory KV     *)
(* store, the dedup and frequency checkers, the rules engine, the circuit  *)
(* breaker, the two scorers, the prioritizer pipeline and the audit log,   *)
(* and of the server's worker threads calling the store.                   *)
(*                                                                         *)
(* Conventions.                                                            *)
(*  - Python's None is the string "None" in string-valued fields and -1    *)
(*    in time-valued fields (expires_at, last_failure_time).               *)
(*  - Time is in seconds; time.time() is the variable now.                 *)
(*  - Scores are integers in thousandths (0.35 is 350): every score the    *)
(*    code rounds to 3 decimals is a multiple of 0.001.                    *)
(*  - Text (titles, f-strings, keys, reasons) is a sequence of tokens:     *)
(*    one-character strings and whole words. Concatenation is \o.          *)
(*  - sha256(...)[:16] is taken to be injective on the normalized text,    *)
(*    so a fingerprint is the normalized token sequence itself.            *)
(*  - An event carries the fields the pipeline reads; source and          *)
(*    timestamp are never read and are left out.                           *)
(*  - The em dash of the code's messages is written "-".                   *)
(***************************************************************************)
EXTENDS Integers, Sequences, FiniteSets, TLC

VARIABLES
    now,            \* time.time()
    kv,             \* InMemoryStore._store    : key -> [value, expire_at]
    counters,       \* InMemoryStore._counters : key -> [count, expire_at]
    rules,          \* RulesEngine.rules (a list of rule records)
    cb,             \* AIScorer.circuit_breaker (the CircuitBreaker's fields)
    ai_available,   \* AIScorer.AI_AVAILABLE
    log,            \* AuditLog._log
    call,           \* the last call that returned a value, with its arguments
    ret,            \* the value it returned
    calls,          \* history: the calls made so far, in order
    returned,       \* history: the Decisions evaluate has returned, in order
    threads         \* the server's worker threads, each idle or inside a store call

vars ==
    <<now, kv, counters, rules, cb, ai_available, log, call, ret, calls, returned, threads>>

None == "None"
NoTime == -1
NoReason == <<>>    \* None where a reason text is expected

----------------------------------------------------------------------------
(* Small text helpers.                                                     *)

RECURSIVE Digits(_)
Digits(n) ==
    IF n < 10
    THEN <<(<<"0","1","2","3","4","5","6","7","8","9">>)[n + 1]>>
    ELSE Digits(n \div 10) \o Digits(n % 10)

\* f"{score:.2f}" of a score in thousandths (ties rounded up; the code rounds
\* the binary double, which no claim depends on).
Fmt2Hundredths(h) ==
    Digits(h \div 100) \o <<".">> \o Digits((h % 100) \div 10) \o Digits(h % 10)
Fmt2(score) == Fmt2Hundredths((score + 5) \div 10)

Upper == {"A", "B", "S", "H"}
LowerOf(c) ==
    CASE c = "A" -> "a" [] c = "B" -> "b" [] c = "S" -> "s" [] c = "H" -> "h"
      [] OTHER -> c
Whitespace == {" "}
Punct == {":", "!", ",", ".", "'", "-"}   \* characters outside [\w\s]

Lower(text) == [i \in 1..Len(text) |-> LowerOf(text[i])]

RECURSIVE LStrip(_)
LStrip(text) ==
    IF text # <<>> /\ Head(text) \in Whitespace THEN LStrip(Tail(text)) ELSE text

RECURSIVE RStrip(_)
RStrip(text) ==
    IF text # <<>> /\ text[Len(text)] \in Whitespace
    THEN RStrip(SubSeq(text, 1, Len(text) - 1))
    ELSE text

Strip(text) == RStrip(LStrip(text))

\* re.sub(r'[^\w\s]', '', text)
StripPunct(text) == SelectSeq(text, LAMBDA c : c \notin Punct)

\* `x or ''` for an optional text field: title and message are token sequences,
\* and both None and '' are the empty sequence.
OrEmpty(t) == t

----------------------------------------------------------------------------
(* api/server.py: the endpoints are plain functions, which the server runs *)
(* on the threads of a pool; the engine, the store and the audit log are   *)
(* module-level objects that all threads share.                            *)

Workers == {"w1", "w2", "w3"}

\* a thread that is in no call
Idle == [pc |-> "idle"]

----------------------------------------------------------------------------
(* models.py                                                               *)

is_expired(event) ==
    IF event.expires_at = NoTime THEN FALSE ELSE event.expires_at < now

Decision(event, action, score, reason, rule_matched, ai_used, fallback_mode) ==
    [event_id |-> event.id, user_id |-> event.user_id, action |-> action,
     score |-> score, reason |-> reason, rule_matched |-> rule_matched,
     ai_used |-> ai_used, fallback_mode |-> fallback_mode]

----------------------------------------------------------------------------
(* store.py : InMemoryStore. Each operation is a function of the map and   *)
(* returns the new map with its result.                                    *)

_is_expired(expire_at) == expire_at # NoTime /\ now > expire_at

Live(m, key) == key \in DOMAIN m /\ ~_is_expired(m[key].expire_at)

Put(m, key, entry) == [k \in DOMAIN m \cup {key} |-> IF k = key THEN entry ELSE m[k]]

\* a plain set: writes whether or not a live entry exists
set_nxOverwrites(m, key, value, ttl_seconds) ==
    [ok |-> TRUE,
     m  |-> Put(m, key, [value |-> value, expire_at |-> now + ttl_seconds])]

\* a set_nx whose refusal renews the entry's expiry (a sliding window)
set_nxSliding(m, key, value, ttl_seconds) ==
    IF Live(m, key)
    THEN [ok |-> FALSE, m |-> Put(m, key, [m[key] EXCEPT !.expire_at = now + ttl_seconds])]
    ELSE [ok |-> TRUE,
          m  |-> Put(m, key, [value |-> value, expire_at |-> now + ttl_seconds])]

set_nx(m, key, value, ttl_seconds) ==
    IF Live(m, key)
    THEN [ok |-> FALSE, m |-> m]
    ELSE [ok |-> TRUE,
          m  |-> Put(m, key, [value |-> value, expire_at |-> now + ttl_seconds])]

Counted(m, key, count, expire_at) ==
    [count |-> count, m |-> Put(m, key, [count |-> count, expire_at |-> expire_at])]

\* incr with a sliding window: every hit renews the TTL
incrSliding(m, key, ttl_seconds) ==
    IF ~Live(m, key)
    THEN Counted(m, key, 1, now + ttl_seconds)
    ELSE Counted(m, key, m[key].count + 1, now + ttl_seconds)

incr(m, key, ttl_seconds) ==
    IF ~Live(m, key)
    THEN Counted(m, key, 1, now + ttl_seconds)
    ELSE Counted(m, key, m[key].count + 1, m[key].expire_at)

get_count(m, key) == IF Live(m, key) THEN m[key].count ELSE 0

----------------------------------------------------------------------------
(* store.py : DedupChecker                                                 *)

EXACT_TTL == 86400
NEAR_TTL == 3600

\* a fingerprint of the text as written: no lower-casing, punctuation kept
_fingerprintVerbatim(event) ==
    Strip(<<event.event_type, ":">> \o OrEmpty(event.title) \o <<":">>
          \o OrEmpty(event.message))

_fingerprint(event) ==
    StripPunct(Strip(Lower(<<event.event_type, ":">> \o OrEmpty(event.title) \o <<":">>
                             \o OrEmpty(event.message))))

DedupKey(event) == <<"dedup", ":", event.user_id, ":", event.dedupe_key>>
FingerprintKey(event) == <<"fingerprint", ":", event.user_id, ":">> \o _fingerprint(event)

ExactReason(event) ==
    <<"Exact duplicate - dedupe_key '", event.dedupe_key, "' already seen in last 24h">>
NearReason == <<"Near-duplicate detected - very similar content sent in last 1h">>

\* `if event.dedupe_key:` is false for None and for the empty string
HasDedupeKey(event) == event.dedupe_key # None /\ event.dedupe_key # ""

\* Layer 2: near-dedup via content fingerprint, on the outcome of its set_nx
NearLayer(l2) ==
    IF ~l2.ok THEN [reason |-> NearReason, m |-> l2.m]
    ELSE [reason |-> NoReason, m |-> l2.m]

\* Layer 1: exact dedup via dedupe_key, on the outcome of its set_nx
ExactLayer(l1, event) ==
    IF ~l1.ok THEN [reason |-> ExactReason(event), m |-> l1.m]
    ELSE NearLayer(set_nx(l1.m, FingerprintKey(event), event.id, NEAR_TTL))

\* DedupChecker.check: [reason, m]; reason is NoReason when no duplicate
DedupCheck(m, event) ==
    ExactLayer(IF HasDedupeKey(event)
               THEN set_nx(m, DedupKey(event), event.id, EXACT_TTL)
               ELSE [ok |-> TRUE, m |-> m],
               event)

----------------------------------------------------------------------------
(* store.py : FrequencyChecker                                             *)

DAY == 86400

CAPS(event_type) ==
    CASE event_type = "promotion"    -> [max |-> 2,  window |-> 3600]
      [] event_type = "update"       -> [max |-> 5,  window |-> 3600]
      [] event_type = "reminder"     -> [max |-> 3,  window |-> 3600]
      [] event_type = "message"      -> [max |-> 20, window |-> 3600]
      [] event_type = "system_event" -> [max |-> 10, window |-> 3600]
      [] event_type = "alert"        -> [max |-> 10, window |-> 3600]
      [] OTHER                       -> [max |-> 8,  window |-> 3600]

DAILY_CHANNEL_CAPS(channel) ==
    CASE channel = "push"   -> 20
      [] channel = "sms"    -> 5
      [] channel = "email"  -> 10
      [] channel = "in_app" -> 50
      [] OTHER              -> 20

FreqKey(event) == <<"freq", ":", event.user_id, ":", event.event_type>>

\* date.today().isoformat(), as the day's number since the epoch
Today == Digits(now \div DAY)
DailyKey(event) == <<"daily_cap", ":", event.user_id, ":", event.channel, ":">> \o Today

FrequencyReason(count, max, event) ==
    IF count > max
    THEN <<"Frequency cap exceeded (">> \o Digits(count) \o <<"/">> \o Digits(max)
           \o <<" '", event.event_type, "' events in last hour)">>
    ELSE NoReason

DailyReason(count, cap, event) ==
    IF count > cap
    THEN <<"Daily ", event.channel, " cap reached (">> \o Digits(count) \o <<"/">>
           \o Digits(cap) \o <<")">>
    ELSE NoReason

FrequencyOutcome(r, event) ==
    [reason |-> FrequencyReason(r.count, CAPS(event.event_type).max, event), m |-> r.m]

DailyOutcome(r, event) ==
    [reason |-> DailyReason(r.count, DAILY_CHANNEL_CAPS(event.channel), event), m |-> r.m]

\* check_frequency reading the count before it increments
check_frequencyCountsAfter(m, event) ==
    [reason |-> FrequencyReason(get_count(m, FreqKey(event)),
                                CAPS(event.event_type).max, event),
     m |-> incr(m, FreqKey(event), CAPS(event.event_type).window).m]

\* [reason, m]
check_frequency(m, event) ==
    FrequencyOutcome(incr(m, FreqKey(event), CAPS(event.event_type).window), event)

check_daily_cap(m, event) ==
    DailyOutcome(incr(m, DailyKey(event), DAY), event)

----------------------------------------------------------------------------
(* rules.py                                                                *)

DEFAULT_RULES == <<
    [name |-> "always_send_security_alerts", priority |-> 100,
     conditions |-> <<[field |-> "event_type", op |-> "eq", value |-> "security_alert"]>>,
     action |-> "NOW", reason |-> <<"Security alerts always sent immediately">>],
    [name |-> "always_send_critical", priority |-> 99,
     conditions |-> <<[field |-> "priority_hint", op |-> "eq", value |-> "critical"]>>,
     action |-> "NOW", reason |-> <<"Critical priority always sent immediately">>],
    [name |-> "suppress_promos_low_priority", priority |-> 50,
     conditions |-> <<[field |-> "event_type", op |-> "eq", value |-> "promotion"],
                      [field |-> "priority_hint", op |-> "in", value |-> {"low", None}]>>,
     action |-> "NEVER", reason |-> <<"Low-priority promotions suppressed to reduce noise">>],
    [name |-> "defer_updates_to_digest", priority |-> 40,
     conditions |-> <<[field |-> "event_type", op |-> "eq", value |-> "update"]>>,
     action |-> "LATER", reason |-> <<"Updates batched into daily digest">>] >>

\* list.sort(key=priority, reverse=True): stable, descending
RECURSIVE InsertByPriority(_, _)
InsertByPriority(sorted, r) ==
    IF sorted = <<>> THEN <<r>>
    ELSE IF Head(sorted).priority >= r.priority
         THEN <<Head(sorted)>> \o InsertByPriority(Tail(sorted), r)
         ELSE <<r>> \o sorted

RECURSIVE SortRules(_)
SortRules(rs) ==
    IF rs = <<>> THEN <<>>
    ELSE InsertByPriority(SortRules(SubSeq(rs, 1, Len(rs) - 1)), rs[Len(rs)])

\* RulesEngine.__init__ without a rules file
InitialRules == SortRules(DEFAULT_RULES)

\* getattr(event, field, event.metadata.get(field))
_get_field(field, event) ==
    IF field \in DOMAIN event THEN event[field]
    ELSE IF field \in DOMAIN event.metadata THEN event.metadata[field]
    ELSE None

Holds(cond, actual) ==
    /\ (cond.op = "eq"  => actual = cond.value)
    /\ (cond.op = "in"  => actual \in cond.value)
    /\ (cond.op = "neq" => actual # cond.value)

_matches(conditions, event) ==
    \A i \in 1..Len(conditions) :
        Holds(conditions[i], _get_field(conditions[i].field, event))

\* None where evaluate returns no (action, reason, name) tuple
NoRule == [action |-> None, reason |-> NoReason, name |-> None]

RuleResult(rule) == [action |-> rule.action, reason |-> rule.reason, name |-> rule.name]

FirstOf(rs, hits) ==
    IF hits = {} THEN NoRule
    ELSE RuleResult(rs[CHOOSE j \in hits : \A k \in hits : j <= k])

\* RulesEngine.evaluate: the first matching rule, or NoRule
RulesEvaluate(rs, event) ==
    FirstOf(rs, {i \in 1..Len(rs) : _matches(rs[i].conditions, event)})

\* add_rule without the re-sort
add_ruleAppends(rs, rule) == Append(rs, rule)

add_rule(rs, rule) == SortRules(Append(rs, rule))

----------------------------------------------------------------------------
(* scorer.py : CircuitBreaker                                              *)

DEFAULT_FAILURE_THRESHOLD == 5
DEFAULT_RESET_TIMEOUT == 30

CircuitBreaker(failure_threshold, reset_timeout) ==
    [failures |-> 0, state |-> "CLOSED", last_failure_time |-> NoTime,
     failure_threshold |-> failure_threshold, reset_timeout |-> reset_timeout]

\* can_attempt admitting the call after the timeout without leaving OPEN
can_attemptStaysOpen(c) ==
    IF c.state = "OPEN"
    THEN [ok |-> now - c.last_failure_time > c.reset_timeout, cb |-> c]
    ELSE [ok |-> TRUE, cb |-> c]

\* [ok, cb]: the answer and the breaker after the call
can_attempt(c) ==
    IF c.state = "OPEN"
    THEN IF now - c.last_failure_time > c.reset_timeout
         THEN [ok |-> TRUE, cb |-> [c EXCEPT !.state = "HALF-OPEN"]]
         ELSE [ok |-> FALSE, cb |-> c]
    ELSE [ok |-> TRUE, cb |-> c]

record_success(c) == [c EXCEPT !.failures = 0, !.state = "CLOSED"]

\* record_failure opening the breaker only past the threshold
record_failurePastThreshold(c) ==
    [c EXCEPT !.failures = @ + 1, !.last_failure_time = now,
              !.state = IF c.failures + 1 > c.failure_threshold THEN "OPEN" ELSE @]

record_failure(c) ==
    [c EXCEPT !.failures = @ + 1, !.last_failure_time = now,
              !.state = IF c.failures + 1 >= c.failure_threshold THEN "OPEN" ELSE @]

----------------------------------------------------------------------------
(* scorer.py : the scorers. Scores in thousandths.                         *)

Min(a, b) == IF a < b THEN a ELSE b
Max(a, b) == IF a > b THEN a ELSE b
Clamp(x) == Max(0, Min(1000, x))

ActionOf(score) ==
    IF score >= 750 THEN "NOW" ELSE IF score >= 350 THEN "LATER" ELSE "NEVER"

\* in hundredths
PRIORITY_SCORES(priority_hint) ==
    CASE priority_hint = "critical" -> 95
      [] priority_hint = "high"     -> 78
      [] priority_hint = "medium"   -> 52
      [] priority_hint = "low"      -> 22
      [] OTHER                      -> 40

\* in tenths
CHANNEL_WEIGHTS(channel) ==
    CASE channel = "push"   -> 10
      [] channel = "sms"    -> 9
      [] channel = "email"  -> 7
      [] channel = "in_app" -> 5
      [] OTHER              -> 7

ScoreResult(score, action, reason, ai_used, fallback_mode) ==
    [score |-> score, action |-> action, reason |-> reason,
     ai_used |-> ai_used, fallback_mode |-> fallback_mode]

ExpiryBonus(event) ==
    IF event.expires_at = NoTime THEN 0
    ELSE IF event.expires_at - now < 600 THEN 30       \* mins < 10
    ELSE IF event.expires_at - now < 3600 THEN 10      \* mins < 60
    ELSE 0

DeterministicValue(event, recent_count, is_quiet_hours) ==
    Clamp((PRIORITY_SCORES(event.priority_hint) - Min(recent_count * 8, 25)
           + ExpiryBonus(event) - (IF is_quiet_hours THEN 20 ELSE 0))
          * CHANNEL_WEIGHTS(event.channel))

DeterministicTail(score) ==
    IF score >= 750 THEN " - high priority, sending immediately"
    ELSE IF score >= 350 THEN " - medium priority, deferred"
    ELSE " - low value, suppressed"

DeterministicResult(score) ==
    ScoreResult(score, ActionOf(score),
                <<"Score ">> \o Fmt2(score) \o <<DeterministicTail(score)>>, FALSE, TRUE)

\* DeterministicScorer.score
DeterministicScore(event, recent_count, is_quiet_hours) ==
    DeterministicResult(DeterministicValue(event, recent_count, is_quiet_hours))

\* in hundredths
TYPE_SCORES(event_type) ==
    CASE event_type = "message"        -> 70
      [] event_type = "security_alert" -> 95
      [] event_type = "alert"          -> 85
      [] event_type = "reminder"       -> 55
      [] event_type = "update"         -> 40
      [] event_type = "promotion"      -> 20
      [] event_type = "system_event"   -> 60
      [] OTHER                         -> 50

HintAdjusted(s0, priority_hint) ==
    CASE priority_hint = "critical" -> Max(s0, 93)
      [] priority_hint = "high"     -> Max(s0, 78)
      [] priority_hint = "low"      -> Min(s0, 35)
      [] OTHER                      -> s0

QuietApplies(event, is_quiet_hours) ==
    is_quiet_hours /\ event.priority_hint \notin {"critical", "high"}

AIValue(event, recent_count, is_quiet_hours) ==
    Clamp(10 * (HintAdjusted(TYPE_SCORES(event.event_type), event.priority_hint)
                - (IF recent_count > 3 THEN 12 * (recent_count - 3) ELSE 0)
                - (IF QuietApplies(event, is_quiet_hours) THEN 18 ELSE 0)))

AIReasons(event, recent_count, is_quiet_hours) ==
    <<"event_type='", event.event_type, "'">>
    \o (IF event.priority_hint = "critical" THEN <<", ", "critical priority">> ELSE <<>>)
    \o (IF recent_count > 3
        THEN <<", ">> \o Digits(recent_count) \o <<" recent similar events">>
        ELSE <<>>)
    \o (IF QuietApplies(event, is_quiet_hours) THEN <<", ", "quiet hours">> ELSE <<>>)

AIResult(score, reasons) ==
    ScoreResult(score, ActionOf(score),
                <<"[AI] Score ">> \o Fmt2(score) \o <<": ">> \o reasons, TRUE, FALSE)

\* AIScorer._call_ai (the simulated scorer)
_call_ai(event, recent_count, is_quiet_hours) ==
    AIResult(AIValue(event, recent_count, is_quiet_hours),
             AIReasons(event, recent_count, is_quiet_hours))

FallbackPrefixed(result, reason) ==
    [result EXCEPT !.reason = <<"[FALLBACK] ">> \o reason \o <<" - ">> \o @]

\* AIScorer._fallback
_fallback(event, recent_count, is_quiet_hours, reason) ==
    FallbackPrefixed(DeterministicScore(event, recent_count, is_quiet_hours), reason)

\* str(e) of the exception the contextual scorer raised
AIError == <<"AI request failed">>

\* AIScorer.score consulting the breaker only, not the AI_AVAILABLE switch
ScoreIgnoringSwitch(att, ai_ok, event, recent_count, is_quiet_hours, ai_raises) ==
    IF ~att.ok
    THEN [result |-> _fallback(event, recent_count, is_quiet_hours,
                               <<"AI circuit breaker OPEN">>),
          cb |-> att.cb]
    ELSE IF ~ai_raises
    THEN [result |-> _call_ai(event, recent_count, is_quiet_hours),
          cb |-> record_success(att.cb)]
    ELSE [result |-> _fallback(event, recent_count, is_quiet_hours, AIError),
          cb |-> record_failure(att.cb)]

\* AIScorer.score answering a raising scorer by the fallback without
\* recording the failure on the breaker
ScoreForgettingFailure(att, ai_ok, event, recent_count, is_quiet_hours, ai_raises) ==
    IF ~att.ok \/ ~ai_ok
    THEN [result |-> _fallback(event, recent_count, is_quiet_hours,
                               <<"AI circuit breaker OPEN">>),
          cb |-> att.cb]
    ELSE IF ~ai_raises
    THEN [result |-> _call_ai(event, recent_count, is_quiet_hours),
          cb |-> record_success(att.cb)]
    ELSE [result |-> _fallback(event, recent_count, is_quiet_hours, AIError),
          cb |-> att.cb]

\* AIScorer.score after can_attempt() has answered att = [ok, cb]
ScoreAfterAttempt(att, ai_ok, event, recent_count, is_quiet_hours, ai_raises) ==
    IF ~att.ok \/ ~ai_ok
    THEN [result |-> _fallback(event, recent_count, is_quiet_hours,
                               <<"AI circuit breaker OPEN">>),
          cb |-> att.cb]
    ELSE IF ~ai_raises
    THEN [result |-> _call_ai(event, recent_count, is_quiet_hours),
          cb |-> record_success(att.cb)]
    ELSE [result |-> _fallback(event, recent_count, is_quiet_hours, AIError),
          cb |-> record_failure(att.cb)]

\* AIScorer.score: [result, cb]. ai_raises: whether the contextual scorer
\* call raises (the production scorer is a remote call with a timeout).
AIScore(c, ai_ok, event, recent_count, is_quiet_hours, ai_raises) ==
    ScoreAfterAttempt(can_attempt(c), ai_ok, event, recent_count, is_quiet_hours,
                      ai_raises)

----------------------------------------------------------------------------
(* audit.py                                                                *)

record(l, decision) == Append(l, decision)

\* seq[start:] of Python, for a start of either sign
SliceFrom(seq, start) ==
    IF start < 0
    THEN SubSeq(seq, Max(Len(seq) + start, 0) + 1, Len(seq))
    ELSE SubSeq(seq, Min(start, Len(seq)) + 1, Len(seq))

\* `if action:` is false for None and for the empty string
OfUser(l, user_id, action) ==
    SelectSeq(l, LAMBDA d : d.user_id = user_id
                            /\ (action \in {None, ""} \/ d.action = action))

\* AuditLog.get_user_history: results[-limit:]
get_user_history(l, user_id, action, limit) ==
    SliceFrom(OfUser(l, user_id, action), 0 - limit)

----------------------------------------------------------------------------
(* prioritizer.py                                                          *)

IsHighPriority(event) == event.priority_hint \in {"critical", "high"}

SafetyNetPrefix == "[SAFETY NET] High-priority event cannot be suppressed. Original: "

\* _decide keeping suppressed decisions out of the audit log
RecordedIfSent(l, d, asked) ==
    [decision |-> d, log |-> IF d.action = "NEVER" THEN l ELSE record(l, d),
     asked |-> asked]

\* asked: the action _decide was called with, before the safety net
Recorded(l, d, asked) == [decision |-> d, log |-> record(l, d), asked |-> asked]

\* _decide with a safety net that covers critical events only
_decideCriticalOnly(l, event, action, score, reason, rule_matched, ai_used, fallback_mode) ==
    IF action = "NEVER" /\ event.priority_hint = "critical"
    THEN Recorded(l, Decision(event, "NOW", 900, <<SafetyNetPrefix>> \o reason,
                              rule_matched, ai_used, fallback_mode), action)
    ELSE Recorded(l, Decision(event, action, score, reason,
                              rule_matched, ai_used, fallback_mode), action)

\* PrioritizationEngine._decide: the safety net, the Decision, the audit record.
\* [decision, log, asked]
_decide(l, event, action, score, reason, rule_matched, ai_used, fallback_mode) ==
    IF action = "NEVER" /\ IsHighPriority(event)
    THEN Recorded(l, Decision(event, "NOW", 900, <<SafetyNetPrefix>> \o reason,
                              rule_matched, ai_used, fallback_mode), action)
    ELSE Recorded(l, Decision(event, action, score, reason,
                              rule_matched, ai_used, fallback_mode), action)

BatchedSuffix == <<" - batched to digest">>
OverridesSuffix == <<" (overrides AI NOW suggestion)">>

\* what evaluate leaves behind: [decision, log, asked, kv, counters, cb]
Outcome(out, st, ct, c) ==
    [decision |-> out.decision, log |-> out.log, asked |-> out.asked,
     kv |-> st, counters |-> ct, cb |-> c]

IsQuiet(event) ==
    IF "quiet_hours" \in DOMAIN event.metadata THEN event.metadata["quiet_hours"]
    ELSE FALSE

\* Step 6 without the downgrade: the scorer's action is always kept
MergeKeepsScorer(l, st, ct, event, rule_result, sc) ==
    Outcome(_decide(l, event, sc.result.action, sc.result.score, sc.result.reason,
                    rule_result.name, sc.result.ai_used, sc.result.fallback_mode),
            st, ct, sc.cb)

\* Step 6 and the return of evaluate, on the scorer's answer sc = [result, cb]
Merge(l, st, ct, event, rule_result, sc) ==
    IF rule_result # NoRule /\ rule_result.action = "LATER"
       /\ sc.result.action = "NOW" /\ ~IsHighPriority(event)
    THEN Outcome(_decide(l, event, "LATER", sc.result.score,
                         rule_result.reason \o OverridesSuffix,
                         rule_result.name, sc.result.ai_used, sc.result.fallback_mode),
                 st, ct, sc.cb)
    ELSE Outcome(_decide(l, event, sc.result.action, sc.result.score, sc.result.reason,
                         rule_result.name, sc.result.ai_used, sc.result.fallback_mode),
                 st, ct, sc.cb)

\* Steps 4 and 5 with the scorer given the count the counter held before the
\* event was counted
FatigueCountsBefore(l, st, c, ai_ok, event, ai_raises, rule_result, f, d) ==
    IF f.reason # NoReason /\ ~IsHighPriority(event)
    THEN IF event.event_type \in {"promotion", "system_event"}
         THEN Outcome(_decide(l, event, "NEVER", 100, f.reason,
                              "frequency_cap", FALSE, FALSE), st, d.m, c)
         ELSE Outcome(_decide(l, event, "LATER", 300, f.reason \o BatchedSuffix,
                              "frequency_cap", FALSE, FALSE), st, d.m, c)
    ELSE IF d.reason # NoReason /\ ~IsHighPriority(event)
    THEN Outcome(_decide(l, event, "LATER", 300, d.reason \o BatchedSuffix,
                         "daily_cap", FALSE, FALSE), st, d.m, c)
    ELSE Merge(l, st, d.m, event, rule_result,
               AIScore(c, ai_ok, event, get_count(d.m, FreqKey(event)) - 1,
                       IsQuiet(event), ai_raises))

\* Steps 4 and 5 of evaluate, on the answers f and d of the two checks
Fatigue(l, st, c, ai_ok, event, ai_raises, rule_result, f, d) ==
    IF f.reason # NoReason /\ ~IsHighPriority(event)
    THEN IF event.event_type \in {"promotion", "system_event"}
         THEN Outcome(_decide(l, event, "NEVER", 100, f.reason,
                              "frequency_cap", FALSE, FALSE), st, d.m, c)
         ELSE Outcome(_decide(l, event, "LATER", 300, f.reason \o BatchedSuffix,
                              "frequency_cap", FALSE, FALSE), st, d.m, c)
    ELSE IF d.reason # NoReason /\ ~IsHighPriority(event)
    THEN Outcome(_decide(l, event, "LATER", 300, d.reason \o BatchedSuffix,
                         "daily_cap", FALSE, FALSE), st, d.m, c)
    ELSE Merge(l, st, d.m, event, rule_result,
               AIScore(c, ai_ok, event, get_count(d.m, FreqKey(event)),
                       IsQuiet(event), ai_raises))

\* check_frequency, then check_daily_cap on the counters it leaves
FatigueChecks(l, st, c, ai_ok, event, ai_raises, rule_result, f) ==
    Fatigue(l, st, c, ai_ok, event, ai_raises, rule_result, f,
            check_daily_cap(f.m, event))

\* Step 3 with the fatigue counters incremented before the rule's verdict is
\* returned (steps 3 and 4 swapped)
RulesAfterCounting(l, st, ct, c, ai_ok, event, ai_raises, rule_result) ==
    IF rule_result # NoRule /\ rule_result.action = "NOW"
    THEN Outcome(_decide(l, event, "NOW", 1000, rule_result.reason,
                         rule_result.name, FALSE, FALSE),
                 st, check_daily_cap(check_frequency(ct, event).m, event).m, c)
    ELSE IF rule_result # NoRule /\ rule_result.action = "NEVER"
    THEN Outcome(_decide(l, event, "NEVER", 0, rule_result.reason,
                         rule_result.name, FALSE, FALSE),
                 st, check_daily_cap(check_frequency(ct, event).m, event).m, c)
    ELSE FatigueChecks(l, st, c, ai_ok, event, ai_raises, rule_result,
                       check_frequency(ct, event))

\* Step 3 of evaluate, on the rules engine's answer
Rules(l, st, ct, c, ai_ok, event, ai_raises, rule_result) ==
    IF rule_result # NoRule /\ rule_result.action = "NOW"
    THEN Outcome(_decide(l, event, "NOW", 1000, rule_result.reason,
                         rule_result.name, FALSE, FALSE), st, ct, c)
    ELSE IF rule_result # NoRule /\ rule_result.action = "NEVER"
    THEN Outcome(_decide(l, event, "NEVER", 0, rule_result.reason,
                         rule_result.name, FALSE, FALSE), st, ct, c)
    ELSE FatigueChecks(l, st, c, ai_ok, event, ai_raises, rule_result,
                       check_frequency(ct, event))

\* Step 2 with the fatigue counters incremented before the duplicate is
\* reported (step 4 moved ahead of step 2)
DedupAfterCounting(l, ct, c, rs, ai_ok, event, ai_raises, dd) ==
    IF dd.reason # NoReason
    THEN Outcome(_decide(l, event, "NEVER", 0, dd.reason, "dedup_check", FALSE, FALSE),
                 dd.m, check_daily_cap(check_frequency(ct, event).m, event).m, c)
    ELSE Rules(l, dd.m, ct, c, ai_ok, event, ai_raises, RulesEvaluate(rs, event))

\* Step 2 of evaluate, on the dedup checker's answer dd = [reason, m]
Dedup(l, ct, c, rs, ai_ok, event, ai_raises, dd) ==
    IF dd.reason # NoReason
    THEN Outcome(_decide(l, event, "NEVER", 0, dd.reason, "dedup_check", FALSE, FALSE),
                 dd.m, ct, c)
    ELSE Rules(l, dd.m, ct, c, ai_ok, event, ai_raises, RulesEvaluate(rs, event))

\* evaluate with the dedup registrations made before the expiry check
PipelineRegistersExpired(l, st, ct, c, rs, ai_ok, event, ai_raises) ==
    IF is_expired(event)
    THEN Outcome(_decide(l, event, "NEVER", 0, <<"Event expired before processing">>,
                         None, FALSE, FALSE), DedupCheck(st, event).m, ct, c)
    ELSE Dedup(l, ct, c, rs, ai_ok, event, ai_raises, DedupCheck(st, event))

\* PrioritizationEngine.evaluate: [decision, log, asked, kv, counters, cb]
Pipeline(l, st, ct, c, rs, ai_ok, event, ai_raises) ==
    IF is_expired(event)
    THEN Outcome(_decide(l, event, "NEVER", 0, <<"Event expired before processing">>,
                         None, FALSE, FALSE), st, ct, c)
    ELSE Dedup(l, ct, c, rs, ai_ok, event, ai_raises, DedupCheck(st, event))

----------------------------------------------------------------------------
(* The engine as a state machine.                                          *)

\* NotificationEvent(...): id 0 stands for the uuid the constructor draws;
\* Evaluate replaces it by a fresh one.
Event(user_id, event_type, channel, title, priority_hint, expires_at, dedupe_key, quiet) ==
    [user_id |-> user_id, event_type |-> event_type, channel |-> channel,
     title |-> title, message |-> <<>>, priority_hint |-> priority_hint,
     expires_at |-> expires_at, dedupe_key |-> dedupe_key,
     metadata |-> IF quiet THEN [quiet_hours |-> TRUE] ELSE <<>>,
     id |-> 0]

EventSpace(users, types, channels, titles, hints, expiries, keys, quiets) ==
    {Event(u, t, c, ti, h, x, k, q) :
        u \in users, t \in types, c \in channels, ti \in titles,
        h \in hints, x \in expiries, k \in keys, q \in quiets}

\* PrioritizationEngine(), a fresh store and audit log, at time 0
Init ==
    /\ now = 0
    /\ kv = <<>>
    /\ counters = <<>>
    /\ rules = InitialRules
    /\ cb = CircuitBreaker(DEFAULT_FAILURE_THRESHOLD, DEFAULT_RESET_TIMEOUT)
    /\ ai_available = TRUE
    /\ log = <<>>
    /\ call = [op |-> "init"]
    /\ ret = None
    /\ calls = <<>>
    /\ returned = <<>>
    /\ threads = [t \in Workers |-> Idle]

\* the record of one evaluate call: its argument, the time, the action _decide
\* was called with, and whether the contextual scorer raised during the call
Called(event, asked, raised) ==
    [op |-> "evaluate", event |-> event, at |-> now, asked |-> asked,
     raised |-> raised]

Returns(event, r) ==
    /\ log' = r.log
    /\ kv' = r.kv
    /\ counters' = r.counters
    /\ cb' = r.cb
    /\ call' = Called(event, r.asked, r.cb.failures > cb.failures)
    /\ calls' = Append(calls, Called(event, r.asked, r.cb.failures > cb.failures))
    /\ ret' = r.decision
    /\ returned' = Append(returned, r.decision)
    /\ UNCHANGED <<now, rules, ai_available, threads>>

Evaluates(event, ai_raises) ==
    Returns(event, Pipeline(log, kv, counters, cb, rules, ai_available, event, ai_raises))

\* engine.evaluate(event)
Evaluate(tmpl, ai_raises) ==
    Evaluates([tmpl EXCEPT !.id = Len(returned) + 1], ai_raises)

\* engine.rules.add_rule(rule)
AddRule(rule) ==
    /\ rules' = add_rule(rules, rule)
    /\ UNCHANGED <<now, kv, counters, cb, ai_available, log, call, ret, calls, returned, threads>>

\* AIScorer.AI_AVAILABLE = b
SetAIAvailable(b) ==
    /\ b # ai_available
    /\ ai_available' = b
    /\ UNCHANGED <<now, kv, counters, rules, cb, log, call, ret, calls, returned, threads>>

\* time passes, to one of the instants of T
Tick(T) ==
    /\ \E t \in T : t > now /\ now' = t
    /\ UNCHANGED <<kv, counters, rules, cb, ai_available, log, call, ret, calls, returned, threads>>

----------------------------------------------------------------------------
(* Spec: every short history of arbitrary events, rule additions, AI       *)
(* switches and clock advances.                                            *)

MaxCalls == 2
MaxAddedRules == 1

Users == {"u1"}
Types == {"security_alert", "promotion"}
Channels == {"in_app"}
Titles == {<<"S", "a", "l", "e", "!">>}
Hints == {"high", "low"}
Expiries == {NoTime, 1}
Keys == {"k1"}
\* events of every type and hint: with and without an expiry; with a dedupe_key;
\* a critical one; and the high-priority promotion in quiet hours (which the
\* deterministic scorer suppresses)
Events ==
    EventSpace(Users, Types, Channels, Titles, Hints, Expiries, {None}, {FALSE})
    \cup EventSpace(Users, Types, Channels, Titles, Hints, {NoTime}, Keys, {FALSE})
    \cup EventSpace(Users, {"promotion"}, Channels, Titles, {"critical"}, {NoTime}, {None},
                    {FALSE})
    \cup EventSpace(Users, {"promotion"}, Channels, Titles, {"high"}, {NoTime}, {None},
                    {TRUE})

Times == {3601, 86401}

AddableRules == {
    [name |-> "block_promotions", priority |-> 60,
     conditions |-> <<[field |-> "event_type", op |-> "eq", value |-> "promotion"]>>,
     action |-> "NEVER", reason |-> <<"Promotions are blocked">>] }

EvaluateAny ==
    /\ Len(returned) < MaxCalls
    /\ \E tmpl \in Events, ai_raises \in BOOLEAN : Evaluate(tmpl, ai_raises)

AddAnyRule ==
    /\ Len(rules) < Len(DEFAULT_RULES) + MaxAddedRules
    /\ \E rule \in AddableRules : AddRule(rule)

SwitchAI == \E b \in BOOLEAN : SetAIAvailable(b)

Next == EvaluateAny \/ AddAnyRule \/ SwitchAI \/ Tick(Times)

Spec == Init /\ [][Next]_vars

----------------------------------------------------------------------------
(* Properties of Spec.                                                     *)

\* calls[i] is an evaluate of an event that was expired when it was made
ExpiredAtCall(c) == c.event.expires_at # NoTime /\ c.event.expires_at < c.at

Urgent(c) == c.event.priority_hint \in {"critical", "high"}

\* the step is an evaluate call
EvaluateStep == calls' # calls

\* C1: every evaluate of an event that is not expired and whose priority_hint
\* is critical or high returns an action other than NEVER; and when _decide was
\* asked for NEVER (by the dedup gate, a rule, a cap or the scorer), the Decision
\* is NOW with score 0.9 and a reason that starts with the safety-net prefix.
C1_UrgentNeverSuppressed ==
    \A i \in DOMAIN calls :
        (Urgent(calls[i]) /\ ~ExpiredAtCall(calls[i]))
        => /\ returned[i].action # "NEVER"
           /\ (calls[i].asked = "NEVER"
               => /\ returned[i].action = "NOW"
                  /\ returned[i].score = 900
                  /\ returned[i].reason # <<>>
                  /\ Head(returned[i].reason) = SafetyNetPrefix)

\* a high-priority, non-expired event that the fallback scorer scored NEVER
C1_ScorerSuppressedUrgent ==
    /\ call.op = "evaluate"
    /\ Urgent(call) /\ ~ExpiredAtCall(call)
    /\ call.asked = "NEVER"
    /\ ret.fallback_mode
    /\ ret.action = "NOW"

\* C2: every evaluate of an expired event returns NEVER, score 0, reason "Event
\* expired before processing" and rule_matched null, whatever its priority_hint.
C2_ExpiredIsNever ==
    \A i \in DOMAIN calls :
        ExpiredAtCall(calls[i])
        => /\ returned[i].action = "NEVER"
           /\ returned[i].score = 0
           /\ returned[i].reason = <<"Event expired before processing">>
           /\ returned[i].rule_matched = None

\* C3: with the default rules, every evaluate of a security_alert returns NOW,
\* whatever its priority_hint, content, dedupe_key and expiry and whatever was
\* evaluated before.
C3_SecurityAlertIsNow ==
    rules = InitialRules
    => \A i \in DOMAIN calls :
           calls[i].event.event_type = "security_alert" => returned[i].action = "NOW"

\* the step is an evaluate call that reached the rules gate and was ended there
\* by a rule with the given action
EndedByRule(action) ==
    /\ EvaluateStep
    /\ ~ExpiredAtCall(call')
    /\ RulesEvaluate(rules, call'.event) # NoRule
    /\ RulesEvaluate(rules, call'.event).action = action
    /\ ret'.rule_matched = RulesEvaluate(rules, call'.event).name

\* C7 as stated: an evaluate that a NEVER rule ends at the rules gate adds one
\* to the event's per-type counter and one to its per-channel daily counter.
C7_RuleEndedCallCounts ==
    [][EndedByRule("NEVER")
       => /\ get_count(counters', FreqKey(call'.event))
               = get_count(counters, FreqKey(call'.event)) + 1
          /\ get_count(counters', DailyKey(call'.event))
               = get_count(counters, DailyKey(call'.event)) + 1]_vars

\* C7 as amended: an evaluate that a NEVER rule ends at the rules gate leaves
\* every frequency counter and every daily counter as it was.
C7_RuleEndedCallCountsNothing ==
    [][EndedByRule("NEVER") => counters' = counters]_vars

\* a low-priority promotion ended by its rule while the user's daily counter
\* holds an earlier event
C7_RuleEndedWithLiveCounter ==
    /\ call.op = "evaluate"
    /\ ret.rule_matched = "suppress_promos_low_priority"
    /\ ret.action = "NEVER"
    /\ get_count(counters, DailyKey(call.event)) = 1

\* C8: an evaluate that the dedup gate ends (exact or near duplicate) leaves
\* every frequency counter and every daily counter as it was.
C8_DuplicateCountsNothing ==
    [][(EvaluateStep /\ ret'.rule_matched = "dedup_check") => counters' = counters]_vars

\* a duplicate reported while the event's per-type counter holds the original
C8_DuplicateWithLiveCounter ==
    /\ call.op = "evaluate"
    /\ ret.rule_matched = "dedup_check"
    /\ get_count(counters, FreqKey(call.event)) = 1

----------------------------------------------------------------------------
(* SpecDedup: short histories of messages that share dedupe keys and       *)
(* content, around the ends of the 1 h and 24 h windows. The contextual    *)
(* scorer never raises here.                                               *)

MaxDedupCalls == 3

Hi == <<"H", "i", "!">>
\* low-priority messages with and without a dedupe_key, in two spellings of
\* one content; the same at high priority; the same with an expiry; one of
\* another content under the same key; and another user's
DedupEvents ==
    EventSpace({"u1"}, {"message"}, {"in_app"}, {Hi, <<"h", "i">>}, {"low"}, {NoTime},
               {None, "k1"}, {FALSE})
    \cup EventSpace({"u1"}, {"message"}, {"in_app"}, {<<"h", "i">>}, {"high"}, {NoTime},
                    {None, "k1"}, {FALSE})
    \cup EventSpace({"u1"}, {"message"}, {"in_app"}, {Hi}, {"low"}, {1},
                    {None, "k1"}, {FALSE})
    \cup EventSpace({"u1"}, {"message"}, {"in_app"}, {<<"Y", "o">>}, {"low"}, {NoTime},
                    {"k1"}, {FALSE})
    \cup EventSpace({"u2"}, {"message"}, {"in_app"}, {Hi}, {"low"}, {NoTime},
                    {"k1"}, {FALSE})

DedupTimes == {NEAR_TTL, NEAR_TTL + 1, EXACT_TTL + 1}

EvaluateDedup ==
    /\ Len(calls) < MaxDedupCalls
    /\ \E tmpl \in DedupEvents : Evaluate(tmpl, FALSE)

NextDedup == EvaluateDedup \/ Tick(DedupTimes)

SpecDedup == Init /\ [][NextDedup]_vars

----------------------------------------------------------------------------
(* Properties of SpecDedup.                                                *)

\* the text part occurs in the text reason
Mentions(reason, part) ==
    \E k \in 0..(Len(reason) - Len(part)) : SubSeq(reason, k + 1, k + Len(part)) = part

SameUser(i, j) == calls[i].event.user_id = calls[j].event.user_id

\* calls i and j carry the same non-empty dedupe_key for the same user
SameKey(i, j) ==
    /\ SameUser(i, j)
    /\ calls[i].event.dedupe_key \notin {None, ""}
    /\ calls[i].event.dedupe_key = calls[j].event.dedupe_key

\* the normalized content of an event: type, title and message joined by ":",
\* lower-cased, trimmed, punctuation removed
Normalized(event) ==
    StripPunct(Strip(Lower(<<event.event_type, ":">> \o event.title \o <<":">>
                           \o event.message)))

\* calls i and j carry the same normalized content for the same user
SameContent(i, j) ==
    SameUser(i, j) /\ Normalized(calls[i].event) = Normalized(calls[j].event)

NoKey(i) == calls[i].event.dedupe_key \in {None, ""}

\* what the dedup gate's verdict for call j looks like with the given reason:
\* NEVER with score 0, or, for a critical or high event, the safety net's NOW
EndedAsDuplicate(j, reason) ==
    /\ returned[j].rule_matched = "dedup_check"
    /\ IF Urgent(calls[j])
       THEN /\ returned[j].action = "NOW"
            /\ returned[j].score = 900
            /\ returned[j].reason = <<SafetyNetPrefix>> \o reason
       ELSE /\ returned[j].action = "NEVER"
            /\ returned[j].score = 0
            /\ returned[j].reason = reason

\* C4 as stated: of two evaluate calls with the same non-empty dedupe_key for
\* the same user, the second less than 24 h after the first, the second
\* returns NEVER with a reason that references the key as an exact duplicate.
C4_SecondWithKeyIsNever ==
    \A i, j \in DOMAIN calls :
        (i < j /\ SameKey(i, j) /\ calls[j].at - calls[i].at < EXACT_TTL)
        => /\ returned[j].action = "NEVER"
           /\ Mentions(returned[j].reason, ExactReason(calls[j].event))

\* C4 as amended: when the first call's event is not expired and is not itself
\* reported as an exact duplicate (so it registers the key), and the second
\* call's event is not expired, the second call is ended by the dedup gate with
\* the exact-duplicate reason: NEVER with score 0 unless its priority_hint is
\* critical or high, and then NOW, 0.9, with the safety-net prefix.
C4_SecondWithKeyIsDuplicate ==
    \A i, j \in DOMAIN calls :
        (/\ i < j /\ SameKey(i, j) /\ calls[j].at - calls[i].at < EXACT_TTL
         /\ ~ExpiredAtCall(calls[i])
         /\ ~Mentions(returned[i].reason, ExactReason(calls[i].event))
         /\ ~ExpiredAtCall(calls[j]))
        => EndedAsDuplicate(j, ExactReason(calls[j].event))

\* an exact duplicate of other content, reported more than an hour after the
\* event that registered the key
C4_LateDuplicateOfOtherContent ==
    \E i, j \in DOMAIN calls :
        /\ i < j /\ SameKey(i, j) /\ ~SameContent(i, j)
        /\ calls[j].at - calls[i].at > NEAR_TTL
        /\ ~Urgent(calls[j])
        /\ returned[j].action = "NEVER"
        /\ returned[j].reason = ExactReason(calls[j].event)
        /\ returned[i].rule_matched # "dedup_check"

\* no earlier call of the same user and content in the hour before call i
FirstInHour(i) ==
    \A k \in DOMAIN calls :
        ~(k < i /\ SameContent(k, i) /\ calls[i].at - calls[k].at <= NEAR_TTL)

\* C5 as stated: of the calls made within 1 h for one user with the same
\* normalized content and no dedupe_key, the first is not decided by the dedup
\* gate and each later one returns NEVER with the near-duplicate reason.
C5_FirstPassesRestNever ==
    \A i, j \in DOMAIN calls :
        (/\ i < j /\ SameContent(i, j) /\ NoKey(i) /\ NoKey(j)
         /\ \A k \in DOMAIN calls : k < i => ~SameContent(k, i)
         /\ calls[j].at - calls[i].at <= NEAR_TTL)
        => /\ returned[i].rule_matched # "dedup_check"
           /\ returned[j].action = "NEVER"
           /\ Mentions(returned[j].reason, NearReason)

\* C5 as amended: a call without dedupe_key whose event is not expired and
\* whose content the user has not sent in the hour before is not decided by the
\* dedup gate; and once a non-expired event has passed the dedup gate, every
\* call within 1 h with the same user and content, no dedupe_key and a
\* non-expired event is ended by the dedup gate with the near-duplicate reason:
\* NEVER with score 0 unless its priority_hint is critical or high, and then
\* NOW, 0.9, with the safety-net prefix.
C5_FirstPassesRestDuplicates ==
    /\ \A i \in DOMAIN calls :
           (NoKey(i) /\ ~ExpiredAtCall(calls[i]) /\ FirstInHour(i))
           => returned[i].rule_matched # "dedup_check"
    /\ \A i, j \in DOMAIN calls :
           (/\ i < j /\ SameContent(i, j) /\ NoKey(j)
            /\ calls[j].at - calls[i].at <= NEAR_TTL
            /\ ~ExpiredAtCall(calls[i])
            /\ returned[i].rule_matched # "dedup_check"
            /\ ~ExpiredAtCall(calls[j]))
           => EndedAsDuplicate(j, NearReason)

\* three calls in one hour with the same content in different spellings: the
\* first passes, the two others are reported as near-duplicates
C5_ThreeSpellings ==
    /\ Len(calls) = 3
    /\ \A j \in {2, 3} :
           /\ SameContent(1, j) /\ NoKey(j) /\ ~Urgent(calls[j])
           /\ calls[j].at - calls[1].at <= NEAR_TTL
           /\ returned[j].action = "NEVER" /\ returned[j].reason = NearReason
    /\ NoKey(1) /\ returned[1].rule_matched # "dedup_check"
    /\ calls[1].event.title # calls[2].event.title

\* the events e1 and e2 are of one user and carry the same non-empty
\* dedupe_key or the same normalized content
Alike(e1, e2) ==
    /\ e1.user_id = e2.user_id
    /\ \/ e1.dedupe_key \notin {None, ""} /\ e1.dedupe_key = e2.dedupe_key
       \/ Normalized(e1) = Normalized(e2)

\* C24: an evaluate of an expired event leaves the KV store (values and
\* counters), the breaker and the rules as they were and appends exactly its
\* Decision to the audit log; and a non-expired event is not reported as a
\* duplicate when every earlier event with its dedupe_key or its content was
\* expired when it was evaluated.
C24_ExpiredTouchesNoStore ==
    [][/\ (EvaluateStep /\ ExpiredAtCall(call'))
          => /\ kv' = kv
             /\ counters' = counters
             /\ cb' = cb /\ rules' = rules
             /\ log' = Append(log, ret')
       /\ (/\ EvaluateStep /\ ~ExpiredAtCall(call')
           /\ \A i \in DOMAIN calls :
                  Alike(calls[i].event, call'.event) => ExpiredAtCall(calls[i]))
          => ret'.rule_matched # "dedup_check"]_vars

\* an expired message with a dedupe_key, then the same message without expiry:
\* the second registers the key and the content and is no duplicate
C24_SameMessageAfterExpiredOne ==
    /\ Len(calls) = 2
    /\ ExpiredAtCall(calls[1]) /\ ~ExpiredAtCall(calls[2])
    /\ SameKey(1, 2) /\ SameContent(1, 2)
    /\ returned[1].reason = <<"Event expired before processing">>
    /\ returned[2].rule_matched # "dedup_check"
    /\ kv[DedupKey(calls[2].event)].value = calls[2].event.id
    /\ kv[FingerprintKey(calls[2].event)].value = calls[2].event.id
    /\ log = returned

----------------------------------------------------------------------------
(* SpecBurst: one user sends a burst of events of one kind, each with new  *)
(* content, up to MaxOver events past the kind's hourly cap, while the     *)
(* clock moves to the end of the window and past it. The contextual scorer *)
(* may raise on the first calls of a burst.                                *)

MaxOver == 1

AllTypes ==
    {"promotion", "update", "reminder", "message", "system_event", "alert",
     "security_alert", "digest"}

\* every type at low and medium priority; messages and alerts by sms (daily
\* cap 5); a reminder at high priority, one with a dedupe_key, one with an
\* expiry; a promotion without priority_hint
BurstEvents ==
    EventSpace({"u1"}, AllTypes, {"in_app"}, {<<>>}, {"low", "medium"}, {NoTime},
               {None}, {FALSE})
    \cup EventSpace({"u1"}, {"message", "alert"}, {"sms"}, {<<>>}, {"medium"}, {NoTime},
                    {None}, {FALSE})
    \cup EventSpace({"u1"}, {"reminder"}, {"in_app"}, {<<>>}, {"high"}, {NoTime},
                    {None}, {FALSE})
    \cup EventSpace({"u1"}, {"reminder"}, {"in_app"}, {<<>>}, {"medium"}, {NoTime},
                    {"k1"}, {FALSE})
    \cup EventSpace({"u1"}, {"reminder"}, {"in_app"}, {<<>>}, {"medium"}, {1},
                    {None}, {FALSE})
    \cup EventSpace({"u1"}, {"promotion"}, {"in_app"}, {<<>>}, {None}, {NoTime},
                    {None}, {FALSE})

BurstTimes == {3600, 3601}

\* the n-th event of a burst: the kind's fields, a title of its own
Nth(tmpl, n) == [tmpl EXCEPT !.title = <<"N", "o", " ">> \o Digits(n)]

\* the scorer may raise on the first call and after a call on which it raised
MayRaise == IF calls = <<>> THEN TRUE ELSE call.raised

\* the kinds the next call of the burst may be of
BurstKinds == IF calls = <<>> THEN BurstEvents ELSE {call.event}

EvaluateBurst ==
    \E tmpl \in BurstKinds, ai_raises \in BOOLEAN :
        /\ Len(calls) < CAPS(tmpl.event_type).max + MaxOver
        /\ (ai_raises => MayRaise)
        /\ Evaluate(Nth(tmpl, Len(calls) + 1), ai_raises)

NextBurst == EvaluateBurst \/ Tick(BurstTimes)

SpecBurst == Init /\ [][NextBurst]_vars

----------------------------------------------------------------------------
(* Properties of SpecBurst.                                                *)

\* the hourly caps as documented
HourlyCap(event_type) ==
    CASE event_type = "promotion"    -> 2
      [] event_type = "update"       -> 5
      [] event_type = "reminder"     -> 3
      [] event_type = "message"      -> 20
      [] event_type = "system_event" -> 10
      [] event_type = "alert"        -> 10
      [] OTHER                       -> 8

\* the calls up to j for the user and event type of call j
SameTypeUpTo(j) ==
    {i \in 1..j : SameUser(i, j)
                  /\ calls[i].event.event_type = calls[j].event.event_type}

\* call j is the (M+1)-th of its user and type, all M+1 with a non-urgent
\* priority_hint, no dedupe_key, not expired, pairwise distinct content, and
\* within one hour
OneOverCap(j) ==
    /\ Cardinality(SameTypeUpTo(j)) = HourlyCap(calls[j].event.event_type) + 1
    /\ \A i \in SameTypeUpTo(j) :
           /\ ~Urgent(calls[i]) /\ NoKey(i) /\ ~ExpiredAtCall(calls[i])
           /\ calls[j].at - calls[i].at <= 3600
           /\ \A k \in SameTypeUpTo(j) : k # i => ~SameContent(i, k)

\* C6 as stated: the (M+1)-th event of a type in one window, all with distinct
\* content and a non-urgent priority_hint, yields LATER with rule_matched
\* "frequency_cap", or NEVER when the type is promotion or system_event.
C6_OneOverCapIsCapped ==
    \A j \in DOMAIN calls :
        OneOverCap(j)
        => IF calls[j].event.event_type \in {"promotion", "system_event"}
           THEN returned[j].action = "NEVER"
           ELSE returned[j].action = "LATER"
                /\ returned[j].rule_matched = "frequency_cap"

\* no rule with action NOW or NEVER matches the event of call i
PastRulesGate(i) ==
    RulesEvaluate(rules, calls[i].event).action \notin {"NOW", "NEVER"}

\* C6 as amended: when moreover no rule with action NOW or NEVER matches any
\* of the M+1 events (so each reaches the frequency gate), the (M+1)-th is
\* ended by the frequency cap: LATER with score 0.3, or NEVER with score 0.1
\* when the type is promotion or system_event, rule_matched "frequency_cap".
C6_OneOverCapPastRulesIsCapped ==
    \A j \in DOMAIN calls :
        (OneOverCap(j) /\ \A i \in SameTypeUpTo(j) : PastRulesGate(i))
        => /\ returned[j].rule_matched = "frequency_cap"
           /\ Mentions(returned[j].reason, <<"Frequency cap exceeded (">>)
           /\ IF calls[j].event.event_type \in {"promotion", "system_event"}
              THEN returned[j].action = "NEVER" /\ returned[j].score = 100
              ELSE returned[j].action = "LATER" /\ returned[j].score = 300

\* the 21st message of the hour, deferred by the frequency cap
C6_TwentyFirstMessage ==
    /\ Len(calls) = 21
    /\ OneOverCap(21)
    /\ calls[21].event.event_type = "message"
    /\ returned[21].action = "LATER"
    /\ returned[21].rule_matched = "frequency_cap"
    /\ returned[20].rule_matched # "frequency_cap"

\* C9: the audit log holds exactly the Decisions that evaluate returned, one
\* per call, in the order the calls returned.
C9_LogIsWhatReturned ==
    /\ Len(log) = Len(calls)
    /\ log = returned

\* a log that holds a scored decision, a daily-cap decision and a
\* frequency-cap decision
C9_LogOfScoredAndCapped ==
    /\ \E i \in DOMAIN log : log[i].ai_used
    /\ \E i \in DOMAIN log : log[i].fallback_mode
    /\ \E i \in DOMAIN log : log[i].rule_matched = "daily_cap"
    /\ \E i \in DOMAIN log : log[i].rule_matched = "frequency_cap"

\* C12: of 7 evaluate calls in a row for one user with low-priority in_app
\* updates of pairwise distinct content, on a fresh store with the default
\* rules and the contextual scorer answering, each of the first 5 returns LATER
\* under the rule defer_updates_to_digest, and the 6th and 7th return LATER
\* with a reason that mentions the frequency cap.
C12_SevenUpdates ==
    \A j \in DOMAIN calls :
        (/\ j <= 7
         /\ rules = InitialRules
         /\ calls[j].at - calls[1].at <= 3600
         /\ \A i \in 1..j :
                /\ calls[i].event.event_type = "update"
                /\ calls[i].event.priority_hint = "low"
                /\ calls[i].event.channel = "in_app"
                /\ ~calls[i].raised)
        => /\ returned[j].action = "LATER"
           /\ IF j <= 5
              THEN returned[j].rule_matched = "defer_updates_to_digest"
              ELSE Mentions(returned[j].reason, <<"Frequency cap exceeded (">>)

\* the Decision d was made at the frequency gate or after it: by a cap or
\* from the scorer's answer
AtGate(d) ==
    d.ai_used \/ d.fallback_mode \/ d.rule_matched \in {"frequency_cap", "daily_cap"}

\* the hourly window of events like e (same user, same event_type) after the
\* first k calls of h, whose Decisions are r: the number of those events that
\* reached the frequency gate in the window the last of them fell into, and
\* the end of that window. A window opens with the first such event after the
\* end of the previous window and lasts one hour.
RECURSIVE GateWindow(_, _, _, _)
GateWindow(h, r, k, e) ==
    IF k = 0 THEN [count |-> 0, until |-> NoTime]
    ELSE LET w == GateWindow(h, r, k - 1, e)
         IN  IF ~(/\ h[k].event.user_id = e.user_id
                  /\ h[k].event.event_type = e.event_type
                  /\ AtGate(r[k]))
             THEN w
             ELSE IF w.count = 0 \/ h[k].at > w.until
             THEN [count |-> 1, until |-> h[k].at + 3600]
             ELSE [w EXCEPT !.count = @ + 1]

\* for the evaluate call of this step: the number of events of its user and
\* type that reached the frequency gate in the current window, itself included
GateCount == GateWindow(calls', returned', Len(calls'), call'.event).count

\* the score of the scorer that answered in this step when it is asked with
\* recent_count n
ScoredWith(n) ==
    IF ret'.ai_used
    THEN AIValue(call'.event, n, IsQuiet(call'.event))
    ELSE DeterministicValue(call'.event, n, IsQuiet(call'.event))

----------------------------------------------------------------------------
(* SpecBreaker: a CircuitBreaker on its own, built with some threshold and *)
(* reset timeout, and driven by any short sequence of its three methods    *)
(* while the clock advances.                                               *)

MaxBreakerCalls == 7

Thresholds == {1, 2, DEFAULT_FAILURE_THRESHOLD}
ResetTimeouts == {0, DEFAULT_RESET_TIMEOUT}
BreakerTimes == {DEFAULT_RESET_TIMEOUT, DEFAULT_RESET_TIMEOUT + 1}

\* CircuitBreaker(failure_threshold, reset_timeout) at time 0
InitBreaker ==
    /\ now = 0
    /\ cb \in {CircuitBreaker(ft, rt) : ft \in Thresholds, rt \in ResetTimeouts}
    /\ kv = <<>>
    /\ counters = <<>>
    /\ rules = InitialRules
    /\ ai_available = TRUE
    /\ log = <<>>
    /\ call = [op |-> "init"]
    /\ ret = None
    /\ calls = <<>>
    /\ returned = <<>>
    /\ threads = [t \in Workers |-> Idle]

\* a call of the breaker's method op that leaves the breaker c and returns r
BreakerCalled(op, c, r) ==
    /\ Len(calls) < MaxBreakerCalls
    /\ cb' = c
    /\ ret' = r
    /\ call' = [op |-> op, at |-> now]
    /\ calls' = Append(calls, [op |-> op, at |-> now])
    /\ UNCHANGED <<now, kv, counters, rules, ai_available, log, returned, threads>>

CanAttempt == BreakerCalled("can_attempt", can_attempt(cb).cb, can_attempt(cb).ok)

RecordSuccess == BreakerCalled("record_success", record_success(cb), None)

RecordFailure == BreakerCalled("record_failure", record_failure(cb), None)

NextBreaker == CanAttempt \/ RecordSuccess \/ RecordFailure \/ Tick(BreakerTimes)

SpecBreaker == InitBreaker /\ [][NextBreaker]_vars

----------------------------------------------------------------------------
(* Properties of SpecBreaker.                                              *)

\* the number of record_failure calls in h since the last record_success
RECURSIVE FailuresInARow(_)
FailuresInARow(h) ==
    IF h = <<>> THEN 0
    ELSE IF h[Len(h)].op = "record_success" THEN 0
    ELSE IF h[Len(h)].op = "record_failure"
         THEN 1 + FailuresInARow(SubSeq(h, 1, Len(h) - 1))
    ELSE FailuresInARow(SubSeq(h, 1, Len(h) - 1))

\* the time of the last record_failure call in h (NoTime when there is none)
RECURSIVE LastFailureAt(_)
LastFailureAt(h) ==
    IF h = <<>> THEN NoTime
    ELSE IF h[Len(h)].op = "record_failure" THEN h[Len(h)].at
    ELSE LastFailureAt(SubSeq(h, 1, Len(h) - 1))

\* C10: after failure_threshold or more record_failure calls with no
\* record_success between them, every can_attempt made while no more than
\* reset_timeout has passed since the last failure returns false; and with
\* fewer failures since the last record_success (or since construction) the
\* breaker is CLOSED and can_attempt returns true.
C10_OpensAtThreshold ==
    /\ (/\ call.op = "can_attempt"
        /\ FailuresInARow(calls) >= cb.failure_threshold
        /\ call.at - LastFailureAt(calls) <= cb.reset_timeout)
       => ret = FALSE
    /\ FailuresInARow(calls) < cb.failure_threshold
       => /\ cb.state = "CLOSED"
          /\ (call.op = "can_attempt" => ret = TRUE)

\* a breaker that a record_success had reset, opened again by exactly
\* failure_threshold failures, denying an attempt exactly reset_timeout later
C10_DeniedAtTimeout ==
    /\ call.op = "can_attempt"
    /\ ret = FALSE
    /\ cb.failure_threshold = 2
    /\ cb.reset_timeout = DEFAULT_RESET_TIMEOUT
    /\ FailuresInARow(calls) = cb.failure_threshold
    /\ call.at - LastFailureAt(calls) = cb.reset_timeout
    /\ \E i \in DOMAIN calls :
           calls[i].op = "record_success" /\ i > 1 /\ calls[i - 1].op = "record_failure"

\* the step is a call of the breaker's method op
BreakerStep(op) == calls' # calls /\ call'.op = op

\* C22: a can_attempt made while the breaker is OPEN and more than
\* reset_timeout after the last failure returns true and leaves the breaker
\* HALF-OPEN; a record_failure made while it is HALF-OPEN leaves it OPEN; and a
\* can_attempt made while it is OPEN and no more than reset_timeout after the
\* last failure (the one that reopened it, if any) returns false and leaves it
\* OPEN.
C22_HalfOpenProbe ==
    [][/\ (BreakerStep("can_attempt") /\ cb.state = "OPEN"
           /\ now - LastFailureAt(calls) > cb.reset_timeout)
          => ret' = TRUE /\ cb'.state = "HALF-OPEN"
       /\ (BreakerStep("record_failure") /\ cb.state = "HALF-OPEN")
          => /\ cb'.state = "OPEN"
             /\ cb'.last_failure_time = now
       /\ (BreakerStep("can_attempt") /\ cb.state = "OPEN"
           /\ now - LastFailureAt(calls) <= cb.reset_timeout)
          => ret' = FALSE /\ cb'.state = "OPEN"]_vars

\* a breaker of threshold 2 opened at time 0, half-opened by the can_attempt
\* made at 31, reopened by one failure, and denying the next can_attempt
C22_ReopenedByOneFailure ==
    /\ cb.failure_threshold = 2 /\ cb.reset_timeout = DEFAULT_RESET_TIMEOUT
    /\ Len(calls) = 5
    /\ calls[1].op = "record_failure" /\ calls[2].op = "record_failure"
    /\ calls[2].at = 0
    /\ calls[3].op = "can_attempt" /\ calls[3].at = DEFAULT_RESET_TIMEOUT + 1
    /\ calls[4].op = "record_failure"
    /\ calls[5].op = "can_attempt"
    /\ ret = FALSE
    /\ cb.state = "OPEN"
    /\ cb.failures = 3

----------------------------------------------------------------------------
(* SpecMerge: short histories of events that end at each exit of the       *)
(* pipeline, each with content of its own, while rules are added (a LATER  *)
(* rule, a rule whose action is no verdict, a rule without reason text),   *)
(* the AI switch is flipped and the clock passes the end of the hourly     *)
(* window. The contextual scorer never raises here.                        *)

MaxMergeCalls == 3

\* an alert the contextual scorer sends NOW; a low-priority promotion (rule
\* NEVER; hourly cap 2); a high-priority promotion in quiet hours; an update
\* (rule LATER) with a dedupe_key and an expiry
MergeEvents ==
    EventSpace({"u1"}, {"alert"}, {"push"}, {<<>>}, {"medium"}, {NoTime}, {None}, {FALSE})
    \cup EventSpace({"u1"}, {"promotion"}, {"push"}, {<<>>}, {"low"}, {NoTime}, {None},
                    {FALSE})
    \cup EventSpace({"u1"}, {"promotion"}, {"in_app"}, {<<>>}, {"high"}, {NoTime}, {None},
                    {TRUE})
    \cup EventSpace({"u1"}, {"update"}, {"in_app"}, {<<>>}, {"low"}, {3600}, {"k1"},
                    {FALSE})

\* a LATER rule for alerts; a rule for promotions whose action is no verdict,
\* at the priority of a default rule; a NOW rule for updates without reason text
MergeRules == {
    [name |-> "defer_alerts", priority |-> 45,
     conditions |-> <<[field |-> "event_type", op |-> "eq", value |-> "alert"]>>,
     action |-> "LATER", reason |-> <<"Alerts batched into the digest">>],
    [name |-> "review_promotions", priority |-> 100,
     conditions |-> <<[field |-> "event_type", op |-> "eq", value |-> "promotion"],
                      [field |-> "priority_hint", op |-> "neq", value |-> "critical"]>>,
     action |-> "REVIEW", reason |-> <<"Promotions are reviewed">>],
    [name |-> "send_updates", priority |-> 120,
     conditions |-> <<[field |-> "event_type", op |-> "eq", value |-> "update"]>>,
     action |-> "NOW", reason |-> <<>>] }

MergeTimes == {3601}

EvaluateMerge ==
    /\ Len(calls) < MaxMergeCalls
    /\ \E tmpl \in MergeEvents : Evaluate(Nth(tmpl, Len(calls) + 1), FALSE)

AddMergeRule ==
    /\ Len(rules) < Len(DEFAULT_RULES) + MaxAddedRules
    /\ \E rule \in MergeRules : AddRule(rule)

NextMerge == EvaluateMerge \/ AddMergeRule \/ SwitchAI \/ Tick(MergeTimes)

SpecMerge == Init /\ [][NextMerge]_vars

----------------------------------------------------------------------------
(* Properties of SpecMerge.                                                *)

\* the evaluate call of this step reached the scoring step: its event was not
\* expired, was no duplicate, matched no rule with action NOW or NEVER and was
\* not ended by a cap
ReachedScoring ==
    /\ ~ExpiredAtCall(call')
    /\ ret'.rule_matched \notin {"dedup_check", "frequency_cap", "daily_cap"}
    /\ RulesEvaluate(rules, call'.event).action \notin {"NOW", "NEVER"}

\* C11 as stated: every evaluate made while AI_AVAILABLE is false returns
\* ai_used = false, fallback_mode = true and a reason that starts with
\* "[FALLBACK]".
C11_OfflineIsFallback ==
    [][(EvaluateStep /\ ~ai_available)
       => /\ ~ret'.ai_used
          /\ ret'.fallback_mode
          /\ ret'.reason # <<>> /\ Head(ret'.reason) = "[FALLBACK] "]_vars

\* C11 as amended: every evaluate made while AI_AVAILABLE is false returns
\* ai_used = false; when the call reaches the scoring step it returns
\* fallback_mode = true and a reason that starts with "[FALLBACK]" (after the
\* safety net's prefix when the event is critical or high and the fallback
\* scored NEVER); every other call returns fallback_mode = false.
C11_OfflineScoredIsFallback ==
    [][(EvaluateStep /\ ~ai_available)
       => /\ ~ret'.ai_used
          /\ IF ReachedScoring
             THEN /\ ret'.fallback_mode
                  /\ IF Urgent(call') /\ call'.asked = "NEVER"
                     THEN /\ Head(ret'.reason) = SafetyNetPrefix
                          /\ ret'.reason[2] = "[FALLBACK] "
                     ELSE Head(ret'.reason) = "[FALLBACK] "
             ELSE ~ret'.fallback_mode]_vars

\* with the AI switched off: a fallback decision under an added LATER rule,
\* after a duplicate was reported
C11_OfflineUnderLaterRule ==
    /\ ~ai_available
    /\ cb.failures = 0
    /\ call.op = "evaluate"
    /\ ret.rule_matched = "defer_alerts"
    /\ ret.fallback_mode /\ ~ret.ai_used
    /\ Head(ret.reason) = "[FALLBACK] "
    /\ \E i \in DOMAIN returned : returned[i].rule_matched = "dedup_check"

\* C19: every Decision that evaluate has returned has an action among NOW,
\* LATER and NEVER, a score between 0.0 and 1.0 and a non-empty reason, whatever
\* rules were added.
C19_DecisionWellFormed ==
    \A i \in DOMAIN returned :
        /\ returned[i].action \in {"NOW", "LATER", "NEVER"}
        /\ returned[i].score >= 0 /\ returned[i].score <= 1000
        /\ returned[i].reason # <<>>

\* what the scorer answered in the evaluate call of this step: it was asked
\* with the count the frequency check left, under the breaker and the switch
\* as they were before the call
ScorerAnswer ==
    AIScore(cb, ai_available, call'.event, get_count(counters', FreqKey(call'.event)),
            IsQuiet(call'.event), call'.raised).result

\* C20: an evaluate of an event that is not critical or high and whose first
\* matching rule has action LATER never returns NOW; and when the call
\* consulted the scorer, rule_matched is the rule's name, and the Decision is
\* LATER with reason "<rule_reason> (overrides AI NOW suggestion)" when the
\* scorer answered NOW, and carries the scorer's action and reason otherwise.
C20_LaterRuleNeverNow ==
    [][(EvaluateStep /\ ~Urgent(call')
        /\ RulesEvaluate(rules, call'.event).action = "LATER")
       => /\ ret'.action # "NOW"
          /\ (ret'.ai_used \/ ret'.fallback_mode)
             => /\ ret'.rule_matched = RulesEvaluate(rules, call'.event).name
                /\ IF ScorerAnswer.action = "NOW"
                   THEN /\ ret'.action = "LATER"
                        /\ ret'.reason = RulesEvaluate(rules, call'.event).reason
                                           \o <<" (overrides AI NOW suggestion)">>
                   ELSE /\ ret'.action = ScorerAnswer.action
                        /\ ret'.reason = ScorerAnswer.reason]_vars

\* an alert that the contextual scorer would send NOW, deferred under the
\* added rule defer_alerts; an earlier update kept the scorer's LATER
C20_AlertDeferredByRule ==
    /\ call.op = "evaluate"
    /\ call.event.event_type = "alert"
    /\ ret.ai_used
    /\ ret.score = 850
    /\ ret.action = "LATER"
    /\ ret.rule_matched = "defer_alerts"
    /\ ret.reason = <<"Alerts batched into the digest", " (overrides AI NOW suggestion)">>
    /\ \E i \in DOMAIN returned :
           /\ returned[i].rule_matched = "defer_updates_to_digest"
           /\ returned[i].ai_used /\ returned[i].action = "LATER"

----------------------------------------------------------------------------
(* SpecRules: the rules engine on its own: rules are added and the engine  *)
(* is asked about events of every kind.                                    *)

\* engine.rules.evaluate(event)
EvaluateRules ==
    /\ \E event \in MergeEvents \cup BurstEvents \cup Events :
           /\ call' = [op |-> "rules.evaluate", event |-> event]
           /\ ret' = RulesEvaluate(rules, event)
    /\ UNCHANGED <<now, kv, counters, rules, cb, ai_available, log, calls, returned,
                   threads>>

NextRules == AddMergeRule \/ EvaluateRules

SpecRules == Init /\ [][NextRules]_vars

----------------------------------------------------------------------------
(* Properties of SpecRules.                                                *)

\* the rules of the list whose conditions all hold for the event
Matching(event) == {i \in 1..Len(rules) : _matches(rules[i].conditions, event)}

\* C17: the rule list is sorted by descending priority and contains the four
\* default rules; and for every event, RulesEngine.evaluate returns the
\* (action, reason, name) of a rule whose conditions all hold and whose
\* priority no other such rule exceeds, or null when no rule's conditions hold.
C17_SortedFirstMatchWins ==
    /\ \A i \in 1..(Len(rules) - 1) : rules[i].priority >= rules[i + 1].priority
    /\ \A d \in DOMAIN DEFAULT_RULES : \E i \in DOMAIN rules : rules[i] = DEFAULT_RULES[d]
    /\ \A event \in MergeEvents \cup BurstEvents \cup Events :
           IF Matching(event) = {}
           THEN RulesEvaluate(rules, event) = NoRule
           ELSE \E i \in Matching(event) :
                    /\ RulesEvaluate(rules, event)
                           = [action |-> rules[i].action, reason |-> rules[i].reason,
                              name |-> rules[i].name]
                    /\ \A k \in Matching(event) : rules[k].priority <= rules[i].priority

\* an added rule of priority 100 sits behind the default rule of that priority
\* and ahead of the others, and is the rule returned for a promotion
C17_AddedRuleAmongDefaults ==
    /\ Len(rules) = Len(DEFAULT_RULES) + 1
    /\ rules[1].name = "always_send_security_alerts"
    /\ rules[2].name = "review_promotions"
    /\ call.op = "rules.evaluate"
    /\ call.event.event_type = "promotion"
    /\ ret.name = "review_promotions"

----------------------------------------------------------------------------
(* SpecScorer: the DeterministicScorer on its own, called with any of a    *)
(* few arguments while the clock advances towards an event's expiry.       *)

MaxScorerCalls == 2

\* push events at medium and low priority, without expiry and with one that
\* is 70 minutes away at time 0
ScorerEvents ==
    EventSpace({"u1"}, {"reminder"}, {"push"}, {<<>>}, {"medium", "low"}, {NoTime, 4200},
               {None}, {FALSE})

\* 53 minutes and 8 minutes before that expiry
ScorerTimes == {1000, 3700}

\* DeterministicScorer().score(event, recent_count, is_quiet_hours)
ScoreDeterministic ==
    /\ Len(calls) < MaxScorerCalls
    /\ \E event \in ScorerEvents, recent_count \in {0, 1, 4}, is_quiet_hours \in BOOLEAN :
           /\ ret' = DeterministicScore(event, recent_count, is_quiet_hours)
           /\ call' = [op |-> "score", event |-> event, recent_count |-> recent_count,
                       is_quiet_hours |-> is_quiet_hours]
           /\ calls' = Append(calls, call')
           /\ returned' = Append(returned, ret')
    /\ UNCHANGED <<now, kv, counters, rules, cb, ai_available, log, threads>>

NextScorer == ScoreDeterministic \/ Tick(ScorerTimes)

SpecScorer == Init /\ [][NextScorer]_vars

----------------------------------------------------------------------------
(* Properties of SpecScorer.                                               *)

\* C13: two calls of DeterministicScorer.score with equal arguments (event,
\* recent_count, is_quiet_hours) return the same score and the same action,
\* whenever they are made and whether or not the event carries an expires_at.
C13_EqualArgumentsEqualResult ==
    \A i, j \in DOMAIN calls :
        calls[i] = calls[j]
        => /\ returned[i].score = returned[j].score
           /\ returned[i].action = returned[j].action

----------------------------------------------------------------------------
(* SpecCounter: the store's counters on their own, under any short         *)
(* sequence of incr and get_count calls on two keys while the clock moves  *)
(* to the end of a window and past it.                                     *)

MaxCounterCalls == 4

CounterKeys == {"a", "b"}
CounterTtl == 3600
\* the middle of the first window, its last instant, the first instant after
\* it; and the same for a window that started in the middle of the first
CounterTimes == {1800, 3600, 3601, 5400, 5401}

\* a call of the store's method op on key that leaves the counters m and
\* returns r
CounterCalled(op, key, m, r) ==
    /\ Len(calls) < MaxCounterCalls
    /\ counters' = m
    /\ ret' = r
    /\ call' = [op |-> op, key |-> key, ttl |-> CounterTtl, at |-> now]
    /\ calls' = Append(calls, call')
    /\ returned' = Append(returned, r)
    /\ UNCHANGED <<now, kv, rules, cb, ai_available, log, threads>>

\* store.incr(key, ttl)
Incr ==
    \E key \in CounterKeys :
        CounterCalled("incr", key, incr(counters, key, CounterTtl).m,
                      incr(counters, key, CounterTtl).count)

\* store.get_count(key)
GetCount ==
    \E key \in CounterKeys :
        CounterCalled("get_count", key, counters, get_count(counters, key))

NextCounter == Incr \/ GetCount \/ Tick(CounterTimes)

SpecCounter == Init /\ [][NextCounter]_vars

----------------------------------------------------------------------------
(* Properties of SpecCounter.                                              *)

\* the fixed window of key after the calls h, as the count and the end of the
\* window the last incr on key fell into: an incr with no window yet, or made
\* after the end of the window, opens a window of its own that ends ttl later
RECURSIVE WindowAfter(_, _)
WindowAfter(h, key) ==
    IF h = <<>> THEN [count |-> 0, expire_at |-> NoTime]
    ELSE IF h[Len(h)].op # "incr" \/ h[Len(h)].key # key
    THEN WindowAfter(SubSeq(h, 1, Len(h) - 1), key)
    ELSE IF \/ WindowAfter(SubSeq(h, 1, Len(h) - 1), key).count = 0
            \/ h[Len(h)].at > WindowAfter(SubSeq(h, 1, Len(h) - 1), key).expire_at
    THEN [count |-> 1, expire_at |-> h[Len(h)].at + h[Len(h)].ttl]
    ELSE [WindowAfter(SubSeq(h, 1, Len(h) - 1), key) EXCEPT !.count = @ + 1]

\* C14: the counters use a fixed window. Each incr returns the count of the
\* window it falls into (1 when it opens the window, the previous count plus
\* one otherwise); the entry holds that count and the end of the window as the
\* opening incr set it (its time plus ttl); each get_count returns the count
\* of the key's window while it has not ended, and 0 otherwise.
C14_FixedWindow ==
    /\ \A i \in DOMAIN calls :
           IF calls[i].op = "incr"
           THEN returned[i] = WindowAfter(SubSeq(calls, 1, i), calls[i].key).count
           ELSE returned[i] =
                    IF calls[i].at <= WindowAfter(SubSeq(calls, 1, i), calls[i].key).expire_at
                    THEN WindowAfter(SubSeq(calls, 1, i), calls[i].key).count
                    ELSE 0
    /\ \A key \in CounterKeys :
           IF WindowAfter(calls, key).count = 0
           THEN key \notin DOMAIN counters
           ELSE key \in DOMAIN counters /\ counters[key] = WindowAfter(calls, key)

\* a key whose window was hit twice, at its start and at its last instant,
\* read as 0 once the window had ended and then opened anew by an incr
C14_WindowReopened ==
    /\ Len(calls) = 4
    /\ \A i \in DOMAIN calls : calls[i].key = "a"
    /\ calls[1].op = "incr" /\ returned[1] = 1
    /\ calls[2].op = "incr" /\ returned[2] = 2 /\ calls[2].at = calls[1].at + CounterTtl
    /\ calls[3].op = "get_count" /\ returned[3] = 0
    /\ calls[4].op = "incr" /\ returned[4] = 1
    /\ counters["a"].expire_at = calls[4].at + CounterTtl

----------------------------------------------------------------------------
(* SpecWorkers: the worker threads call set_nx and incr on the shared      *)
(* store, one call each. InMemoryStore takes no lock, so a thread switch   *)
(* can fall between the statement that reads the entry and the statement   *)
(* that writes it: each call is two steps. The clock stands still.         *)

WorkerKeys == {"a", "b"}

\* dict.get(key): the entry in a one-element list, or the empty list for None
Get(m, key) == IF key \in DOMAIN m THEN <<m[key]>> ELSE <<>>

\* `entry and not self._is_expired(entry[1])` on what the thread has read
FoundLive(entry) == entry # <<>> /\ ~_is_expired(entry[1].expire_at)

Reading(op, key, entry) == [pc |-> "read", op |-> op, key |-> key, entry |-> entry]

Done(th, result) == [pc |-> "done", op |-> th.op, key |-> th.key, result |-> result]

\* set_nx, first statement: entry = self._store.get(key)
SetNxRead(t) ==
    /\ threads[t] = Idle
    /\ \E key \in WorkerKeys :
           threads' = [threads EXCEPT ![t] = Reading("set_nx", key, Get(kv, key))]
    /\ UNCHANGED <<now, kv, counters, rules, cb, ai_available, log, call, ret, calls,
                   returned>>

\* set_nx, the rest: return False on a live entry, else write and return True
SetNxWrite(t) ==
    /\ threads[t].pc = "read" /\ threads[t].op = "set_nx"
    /\ kv' = IF FoundLive(threads[t].entry) THEN kv
             ELSE Put(kv, threads[t].key, [value |-> t, expire_at |-> now + CounterTtl])
    /\ threads' = [threads EXCEPT ![t] = Done(@, ~FoundLive(@.entry))]
    /\ UNCHANGED <<now, counters, rules, cb, ai_available, log, call, ret, calls,
                   returned>>

\* incr, first statement: entry = self._counters.get(key)
IncrRead(t) ==
    /\ threads[t] = Idle
    /\ \E key \in WorkerKeys :
           threads' = [threads EXCEPT ![t] = Reading("incr", key, Get(counters, key))]
    /\ UNCHANGED <<now, kv, counters, rules, cb, ai_available, log, call, ret, calls,
                   returned>>

\* the count incr writes and returns, on what the thread has read
IncrCount(entry) == IF FoundLive(entry) THEN entry[1].count + 1 ELSE 1

\* incr, the rest: write (1, now + ttl) or (count + 1, entry[1]); return the count
IncrWrite(t) ==
    /\ threads[t].pc = "read" /\ threads[t].op = "incr"
    /\ counters' =
           Put(counters, threads[t].key,
               [count |-> IncrCount(threads[t].entry),
                expire_at |-> IF FoundLive(threads[t].entry)
                              THEN threads[t].entry[1].expire_at
                              ELSE now + CounterTtl])
    /\ threads' = [threads EXCEPT ![t] = Done(@, IncrCount(@.entry))]
    /\ UNCHANGED <<now, kv, rules, cb, ai_available, log, call, ret, calls, returned>>

NextWorkers ==
    \E t \in Workers : SetNxRead(t) \/ SetNxWrite(t) \/ IncrRead(t) \/ IncrWrite(t)

SpecWorkers == Init /\ [][NextWorkers]_vars

----------------------------------------------------------------------------
(* Properties of SpecWorkers.                                              *)

\* the threads that are in a call of op on key, and those that have returned
\* from one
Inside(op, key) ==
    {t \in Workers : threads[t].pc = "read" /\ threads[t].op = op /\ threads[t].key = key}
Finished(op, key) ==
    {t \in Workers : threads[t].pc = "done" /\ threads[t].op = op /\ threads[t].key = key}

\* C15: of the threads that call set_nx on one key that had no live entry, at
\* most one gets true.
C15_OneSetNxWins ==
    \A key \in WorkerKeys :
        Cardinality({t \in Finished("set_nx", key) : threads[t].result}) <= 1

\* C16: once the N threads that called incr on one key have all returned,
\* their results are the N values 1..N and get_count on the key is N.
C16_NoIncrementLost ==
    \A key \in WorkerKeys :
        Inside("incr", key) = {}
        => /\ {threads[t].result : t \in Finished("incr", key)}
                = 1..Cardinality(Finished("incr", key))
           /\ get_count(counters, key) = Cardinality(Finished("incr", key))

----------------------------------------------------------------------------
(* SpecHistory: the audit log filled by a few evaluate calls for two users *)
(* and queried with get_user_history.                                      *)

HistoryLimits == {0, 1, 2, 50}

\* audit_log.get_user_history(user_id, action, limit)
GetUserHistory ==
    /\ \E user_id \in {"u1", "u2"}, action \in {None, "NOW", "NEVER"},
          limit \in HistoryLimits :
           /\ call' = [op |-> "get_user_history", user_id |-> user_id,
                       action |-> action, limit |-> limit]
           /\ ret' = get_user_history(log, user_id, action, limit)
    /\ UNCHANGED <<now, kv, counters, rules, cb, ai_available, log, calls, returned,
                   threads>>

NextHistory == EvaluateDedup \/ GetUserHistory

SpecHistory == Init /\ [][NextHistory]_vars

----------------------------------------------------------------------------
(* Properties of SpecHistory.                                              *)

\* the indices of the log entries of the user (and of the action, when one is
\* given)
MatchesOf(c) ==
    {i \in DOMAIN log : /\ log[i].user_id = c.user_id
                        /\ (c.action # None => log[i].action = c.action)}

\* C18: get_user_history(user_id, action, limit) returns at most limit
\* Decisions: the last limit entries of the log that match user_id (and action
\* when given), in the order of the log.
C18_LastLimitMatches ==
    call.op = "get_user_history"
    => /\ Len(ret) <= call.limit
       /\ Len(ret) = Min(call.limit, Cardinality(MatchesOf(call)))
       /\ \A k \in DOMAIN ret :
              \E i \in MatchesOf(call) :
                  /\ ret[k] = log[i]
                  /\ Cardinality({j \in MatchesOf(call) : j > i}) = Len(ret) - k

----------------------------------------------------------------------------
(* SpecAI: the engine's AIScorer over an outage of the contextual scorer.  *)
(* score is called on its own and through evaluate, the contextual scorer  *)
(* may raise whenever it is called, AI_AVAILABLE is flipped, and the clock *)
(* moves to the breaker's reset timeout and past it.                       *)

MaxAIFailures == 6
MaxAIEvaluations == 1

\* an alert (contextual scorer: NOW, fallback: LATER) and a high-priority
\* promotion in quiet hours (fallback: NEVER)
AIEvents ==
    EventSpace({"u1"}, {"alert"}, {"push"}, {<<>>}, {"medium"}, {NoTime}, {None}, {FALSE})
    \cup EventSpace({"u1"}, {"promotion"}, {"in_app"}, {<<>>}, {"high"}, {NoTime}, {None},
                    {TRUE})

AITimes == {DEFAULT_RESET_TIMEOUT, DEFAULT_RESET_TIMEOUT + 1}

\* whether score gets as far as calling the contextual scorer
Attempts == can_attempt(cb).ok /\ ai_available

\* the contextual scorer can raise only when it is called, and here only
\* while the breaker has counted fewer than MaxAIFailures failures
CanRaise == IF Attempts /\ cb.failures < MaxAIFailures THEN BOOLEAN ELSE {FALSE}

\* engine.scorer.score(event, recent_count, is_quiet_hours); ai_raises: the
\* contextual scorer was called and raised
ScoreAI ==
    /\ \E event \in AIEvents, recent_count \in {1, 4}, ai_raises \in CanRaise :
           /\ cb' = AIScore(cb, ai_available, event, recent_count, IsQuiet(event),
                            ai_raises).cb
           /\ ret' = AIScore(cb, ai_available, event, recent_count, IsQuiet(event),
                             ai_raises).result
           /\ call' = [op |-> "score", event |-> event, recent_count |-> recent_count,
                       is_quiet_hours |-> IsQuiet(event), ai_raises |-> ai_raises,
                       at |-> now]
    /\ UNCHANGED <<now, kv, counters, rules, ai_available, log, calls, returned, threads>>

EvaluateAI ==
    /\ Len(returned) < MaxAIEvaluations
    /\ \E tmpl \in AIEvents, ai_raises \in CanRaise :
           Evaluate(Nth(tmpl, Len(returned) + 1), ai_raises)

NextAI == ScoreAI \/ EvaluateAI \/ SwitchAI \/ Tick(AITimes)

SpecAI == Init /\ [][NextAI]_vars

----------------------------------------------------------------------------
(* Properties of SpecAI.                                                   *)

\* the step is a call of AIScorer.score on its own
ScoreStep == call'.op = "score" /\ now' = now /\ ai_available' = ai_available

\* C21: when the contextual scorer call raises, AIScorer.score returns: it
\* records exactly one failure on the breaker (failures grows by one and
\* last_failure_time is the time of the call) and returns the deterministic
\* scorer's score and action with ai_used = false, fallback_mode = true and the
\* reason "[FALLBACK] <failure description> - <the deterministic reason>"; and
\* an evaluate during which the scorer raised returns a Decision made from that
\* result and appends it to the audit log.
C21_ScorerFailureIsHandled ==
    [][/\ (ScoreStep /\ call'.ai_raises)
          => /\ cb'.failures = cb.failures + 1
             /\ cb'.last_failure_time = now
             /\ cb' = record_failure(can_attempt(cb).cb)
             /\ ~ret'.ai_used /\ ret'.fallback_mode
             /\ ret'.score = DeterministicScore(call'.event, call'.recent_count,
                                                call'.is_quiet_hours).score
             /\ ret'.action = ActionOf(ret'.score)
             /\ ret'.reason
                  = <<"[FALLBACK] ">> \o AIError \o <<" - ">>
                    \o DeterministicScore(call'.event, call'.recent_count,
                                          call'.is_quiet_hours).reason
       /\ (EvaluateStep /\ call'.raised)
          => /\ cb'.failures = cb.failures + 1
             /\ cb'.last_failure_time = now
             /\ ~ret'.ai_used /\ ret'.fallback_mode
             /\ ret'.event_id = call'.event.id
             /\ Mentions(ret'.reason, <<"[FALLBACK] ">> \o AIError \o <<" - ">>)
             /\ log' = Append(log, ret')
             /\ returned' = Append(returned, ret')]_vars

\* the breaker opened by five score calls on which the scorer raised; after the
\* timeout an evaluate is admitted as the probe, the scorer raises again, and
\* the Decision comes from the fallback through the safety net
C21_FailedProbeReopens ==
    /\ cb.state = "OPEN"
    /\ cb.failures = DEFAULT_FAILURE_THRESHOLD + 1
    /\ cb.last_failure_time = DEFAULT_RESET_TIMEOUT + 1
    /\ call.op = "evaluate"
    /\ call.raised
    /\ ret.fallback_mode
    /\ Head(ret.reason) = SafetyNetPrefix
    /\ log = <<ret>>

\* C27: a call of AIScorer.score made while AI_AVAILABLE is false leaves the
\* circuit breaker as it was: its state, its failure count and its
\* last_failure_time.
C27_OfflineLeavesBreaker ==
    [][(ScoreStep /\ ~ai_available) => cb' = cb]_vars

----------------------------------------------------------------------------
(* SpecWindows: one user's messages in two spellings of one content, with  *)
(* and without a dedupe_key, around the ends of the 1 h and 24 h dedup     *)
(* windows. The contextual scorer never raises here.                       *)

MaxWindowCalls == 3

\* a message in two spellings, with and without dedupe_key; one of another
\* content under the same key; one with an expiry
WindowEvents ==
    EventSpace({"u1"}, {"message"}, {"in_app"}, {Hi, <<"h", "i">>}, {"low"}, {NoTime},
               {None, "k1"}, {FALSE})
    \cup EventSpace({"u1"}, {"message"}, {"in_app"}, {<<"Y", "o">>}, {"low"}, {NoTime},
                    {"k1"}, {FALSE})
    \cup EventSpace({"u1"}, {"message"}, {"in_app"}, {Hi}, {"low"}, {1}, {"k1"}, {FALSE})

\* the last instant of each window and the first instant after it
WindowTimes == {NEAR_TTL, NEAR_TTL + 1, EXACT_TTL, EXACT_TTL + 1}

EvaluateWindows ==
    /\ Len(calls) < MaxWindowCalls
    /\ \E tmpl \in WindowEvents : Evaluate(tmpl, FALSE)

NextWindows == EvaluateWindows \/ Tick(WindowTimes)

SpecWindows == Init /\ [][NextWindows]_vars

----------------------------------------------------------------------------
(* Properties of SpecWindows.                                              *)

\* the end of the 24 h window of e's dedupe_key after the first k calls of h
\* (NoTime when there has been none): a window opens with the first
\* non-expired event of the user with that key that arrives when no window is
\* running, and ends 24 h later whatever arrives meanwhile
RECURSIVE KeyWindowEnd(_, _, _)
KeyWindowEnd(h, k, e) ==
    IF k = 0 THEN NoTime
    ELSE LET w == KeyWindowEnd(h, k - 1, e)
         IN  IF /\ h[k].event.user_id = e.user_id
                /\ h[k].event.dedupe_key = e.dedupe_key
                /\ ~ExpiredAtCall(h[k])
                /\ (w = NoTime \/ h[k].at > w)
             THEN h[k].at + EXACT_TTL
             ELSE w

\* call k of h carries a dedupe_key whose window is running
KeyLiveAt(h, k) ==
    /\ h[k].event.dedupe_key \notin {None, ""}
    /\ KeyWindowEnd(h, k - 1, h[k].event) # NoTime
    /\ h[k].at <= KeyWindowEnd(h, k - 1, h[k].event)

\* the end of the 1 h window of e's content after the first k calls of h: a
\* window opens with the first non-expired event of the user with that
\* content that is no exact duplicate and arrives when no window is running
RECURSIVE ContentWindowEnd(_, _, _)
ContentWindowEnd(h, k, e) ==
    IF k = 0 THEN NoTime
    ELSE LET w == ContentWindowEnd(h, k - 1, e)
         IN  IF /\ h[k].event.user_id = e.user_id
                /\ Normalized(h[k].event) = Normalized(e)
                /\ ~ExpiredAtCall(h[k])
                /\ ~KeyLiveAt(h, k)
                /\ (w = NoTime \/ h[k].at > w)
             THEN h[k].at + NEAR_TTL
             ELSE w

\* the content of call k of h has a window running
ContentLiveAt(h, k) ==
    /\ ContentWindowEnd(h, k - 1, h[k].event) # NoTime
    /\ h[k].at <= ContentWindowEnd(h, k - 1, h[k].event)

\* the entry under key holds the expiry the history gives: none, or until
StoredUntil(key, until) ==
    IF until = NoTime THEN key \notin DOMAIN kv
    ELSE key \in DOMAIN kv /\ kv[key].expire_at = until

\* the entries for the dedupe_key and the content of the last call hold the
\* ends of their windows
LastCallStored ==
    /\ calls[Len(calls)].event.dedupe_key \notin {None, ""}
       => StoredUntil(DedupKey(calls[Len(calls)].event),
                      KeyWindowEnd(calls, Len(calls), calls[Len(calls)].event))
    /\ StoredUntil(FingerprintKey(calls[Len(calls)].event),
                   ContentWindowEnd(calls, Len(calls), calls[Len(calls)].event))

\* the last call arrived after the end of the window of its dedupe_key, or of
\* its content
LastCallAfterExpiry ==
    \/ /\ calls[Len(calls)].event.dedupe_key \notin {None, ""}
       /\ KeyWindowEnd(calls, Len(calls) - 1, calls[Len(calls)].event) # NoTime
       /\ ~KeyLiveAt(calls, Len(calls))
    \/ /\ ContentWindowEnd(calls, Len(calls) - 1, calls[Len(calls)].event) # NoTime
       /\ ~ContentLiveAt(calls, Len(calls))

\* the last call, if its event was not expired, was ended as an exact
\* duplicate when the window of its dedupe_key was running, otherwise as a
\* near-duplicate when the window of its content was running, and otherwise
\* passed the dedup gate
LastCallVerdict ==
    ~ExpiredAtCall(calls[Len(calls)])
    => IF KeyLiveAt(calls, Len(calls))
       THEN EndedAsDuplicate(Len(calls), ExactReason(calls[Len(calls)].event))
       ELSE IF ContentLiveAt(calls, Len(calls))
       THEN EndedAsDuplicate(Len(calls), NearReason)
       ELSE returned[Len(calls)].rule_matched # "dedup_check"

\* C25 as stated: the dedup windows are fixed (each entry's expiry is the one
\* set by the event that opened the window, 24 h or 1 h after it, however many
\* duplicates arrived meanwhile), and every event that arrives after the end
\* of the window of its dedupe_key, or of its content, passes the dedup gate.
C25_FirstAfterExpiryPasses ==
    calls # <<>>
    => /\ LastCallStored
       /\ LastCallAfterExpiry => returned[Len(calls)].rule_matched # "dedup_check"

\* C25 as amended: the dedup windows are fixed (each entry's expiry is the one
\* set by the event that opened the window, 24 h or 1 h after it, however many
\* duplicates arrived meanwhile); a non-expired event is ended as an exact
\* duplicate exactly while the window of its dedupe_key is running, otherwise
\* as a near-duplicate exactly while the window of its content is running, and
\* otherwise it passes the dedup gate. So the first event after the end of one
\* window passes unless the other window is still running.
C25_FixedDedupWindows ==
    calls # <<>> => LastCallStored /\ LastCallVerdict

\* a message, a near-duplicate of it at the last instant of the hour, and a
\* third one second later that passes: the duplicate did not extend the window
C25_DuplicateDoesNotExtend ==
    /\ Len(calls) = 3
    /\ \A j \in {2, 3} : SameContent(1, j) /\ NoKey(j)
    /\ NoKey(1)
    /\ calls[1].at = 0
    /\ calls[2].at = NEAR_TTL /\ returned[2].rule_matched = "dedup_check"
    /\ calls[3].at = NEAR_TTL + 1 /\ returned[3].rule_matched # "dedup_check"
    /\ kv[FingerprintKey(calls[3].event)].expire_at = 2 * NEAR_TTL + 1

----------------------------------------------------------------------------
(* SpecShared: the worker threads are inside AIScorer.score at once, on    *)
(* the engine's one breaker. CircuitBreaker takes no lock, so a thread     *)
(* switch can fall between two statements of its methods: each statement   *)
(* is a step. AI_AVAILABLE stays true; the contextual scorer answers or    *)
(* raises.                                                                 *)

MaxSharedFailures == 6

SharedTimes == {DEFAULT_RESET_TIMEOUT, DEFAULT_RESET_TIMEOUT + 1}

At(pc) == [pc |-> pc]

\* the thread's next position, the breaker untouched
Goes(t, pc) ==
    /\ threads' = [threads EXCEPT ![t] = At(pc)]
    /\ UNCHANGED <<now, kv, counters, rules, cb, ai_available, log, call, ret, calls,
                   returned>>

\* the thread's next position and the breaker it leaves
GoesWith(t, pc, c) ==
    /\ threads' = [threads EXCEPT ![t] = At(pc)]
    /\ cb' = c
    /\ UNCHANGED <<now, kv, counters, rules, ai_available, log, call, ret, calls,
                   returned>>

\* where the tests of can_attempt lead: to the assignment of HALF-OPEN, back
\* to the caller with False (the fallback answers and score returns), or to
\* the call of the contextual scorer
AfterTests ==
    IF cb.state # "OPEN" THEN "calling"
    ELSE IF now - cb.last_failure_time > cb.reset_timeout THEN "half"
    ELSE "idle"

\* score enters can_attempt: `if self.state == "OPEN"` and the timeout test
CanAttemptTests(t) ==
    /\ threads[t] = Idle
    /\ ai_available
    /\ Goes(t, AfterTests)

\* can_attempt: self.state = "HALF-OPEN"; return True
CanAttemptHalfOpens(t) ==
    /\ threads[t] = At("half")
    /\ GoesWith(t, "calling", [cb EXCEPT !.state = "HALF-OPEN"])

\* the contextual scorer answered; record_success: self.failures = 0
SuccessResets(t) ==
    /\ threads[t] = At("calling")
    /\ GoesWith(t, "reset", [cb EXCEPT !.failures = 0])

\* record_success: self.state = "CLOSED"; score returns
SuccessCloses(t) ==
    /\ threads[t] = At("reset")
    /\ GoesWith(t, "idle", [cb EXCEPT !.state = "CLOSED"])

\* the contextual scorer raised; record_failure: self.failures += 1 and
\* self.last_failure_time = time.time()
FailureCounts(t) ==
    /\ threads[t] = At("calling")
    /\ cb.failures < MaxSharedFailures
    /\ GoesWith(t, "counted", [cb EXCEPT !.failures = @ + 1, !.last_failure_time = now])

\* record_failure: `if self.failures >= self.failure_threshold`
FailureTests(t) ==
    /\ threads[t] = At("counted")
    /\ Goes(t, IF cb.failures >= cb.failure_threshold THEN "opening" ELSE "idle")

\* record_failure: self.state = "OPEN"; score returns the fallback's result
FailureOpens(t) ==
    /\ threads[t] = At("opening")
    /\ GoesWith(t, "idle", [cb EXCEPT !.state = "OPEN"])

NextShared ==
    \/ \E t \in Workers :
           \/ CanAttemptTests(t) \/ CanAttemptHalfOpens(t)
           \/ SuccessResets(t) \/ SuccessCloses(t)
           \/ FailureCounts(t) \/ FailureTests(t) \/ FailureOpens(t)
    \/ Tick(SharedTimes)

SpecShared == Init /\ [][NextShared]_vars

----------------------------------------------------------------------------
(* Properties of SpecShared.                                               *)

\* no thread is inside a method of the breaker
NoneInsideBreaker == \A t \in Workers : threads[t].pc \in {"idle", "calling"}

\* C26: whenever no call of a breaker method is under way, state = CLOSED
\* implies failures < failure_threshold, and state in {OPEN, HALF-OPEN} implies
\* failures >= failure_threshold and a last_failure_time that is set.
C26_BreakerStateMatchesCount ==
    NoneInsideBreaker
    => /\ cb.state = "CLOSED" => cb.failures < cb.failure_threshold
       /\ cb.state \in {"OPEN", "HALF-OPEN"}
          => /\ cb.failures >= cb.failure_threshold
             /\ cb.last_failure_time # NoTime

====
